---- MODULE Spec2Model ----
\* Verification model of the survey runtime: the expression operand tree and
\* operator registry (src/src/expressions/expressions.ts) and the SurveyModel
\* value store, trigger engine, paging and server validation (src/src/survey.ts).
EXTENDS Integers, Sequences, FiniteSets, TLC

\* ---------------------------------------------------------------------------
\* Bounds of the model
\* ---------------------------------------------------------------------------
\* Depth of nested setValue calls at which the JavaScript engine's call stack
\* limit is modelled (RangeError: Maximum call stack size exceeded).
MaxCallDepth == 3
\* Number of public calls made on the survey in one behaviour (invocations of
\* options.complete() are bounded by MaxCompletes instead).
MaxOps == 2
\* Number of options objects doServerValidation may create in one behaviour.
MaxServerCalls == 2
\* Number of options.complete() invocations in one behaviour.
MaxCompletes == 3
\* Number of operands constructed in one behaviour.
MaxOperands == 1
\* Seconds the timer counts up to.
MaxTime == 2

\* ---------------------------------------------------------------------------
\* JavaScript values
\* ---------------------------------------------------------------------------
\* A value is a tagged record.  Numbers are extended rationals n/d with d >= 0:
\* d = 0 encodes NaN (n = 0), Infinity (n = 1) and -Infinity (n = -1).
\* Strings are sequences of one-character strings.
Undefined == [t |-> "undefined"]
Null == [t |-> "null"]
Bool(b) == [t |-> "boolean", b |-> b]
Str(s) == [t |-> "string", s |-> s]
Arr(a) == [t |-> "array", a |-> a]
Obj(f) == [t |-> "object", f |-> f]
NaN == [t |-> "number", n |-> 0, d |-> 0]
Infinity == [t |-> "number", n |-> 1, d |-> 0]
EmptyStr == Str(<<>>)

Abs(i) == IF i < 0 THEN -i ELSE i
Sign(i) == IF i < 0 THEN -1 ELSE IF i > 0 THEN 1 ELSE 0

RECURSIVE GCD(_, _)
GCD(a, b) == IF b = 0 THEN a ELSE GCD(b, a % b)

\* The number n/d in lowest terms (d may be negative or zero on entry).
Frac(n, d) ==
  IF d = 0 THEN [t |-> "number", n |-> Sign(n), d |-> 0]
  ELSE [t |-> "number",
        n |-> (Sign(d) * n) \div GCD(Abs(n), Abs(d)),
        d |-> Abs(d) \div GCD(Abs(n), Abs(d))]
Num(n) == [t |-> "number", n |-> n, d |-> 1]

IsNum(v) == v.t = "number"
IsNaN(v) == IsNum(v) /\ v.d = 0 /\ v.n = 0
IsFinite(v) == IsNum(v) /\ v.d # 0
IsZero(v) == IsNum(v) /\ v.d # 0 /\ v.n = 0

\* JavaScript ToBoolean: the falsy values are undefined, null, false, 0, NaN
\* and the empty string.
Truthy(v) ==
  CASE v.t = "undefined" -> FALSE
    [] v.t = "null" -> FALSE
    [] v.t = "boolean" -> v.b
    [] v.t = "number" -> ~(IsNaN(v) \/ IsZero(v))
    [] v.t = "string" -> v.s # <<>>
    [] OTHER -> TRUE

\* x == null in JavaScript: true for null and undefined only.
LooseNull(v) == v.t \in {"null", "undefined"}

\* ---------------------------------------------------------------------------
\* Strings (sequences of characters)
\* ---------------------------------------------------------------------------
Upper == <<"A","B","C","D","E","F","G","H","I","J","K","L","M",
           "N","O","P","Q","R","S","T","U","V","W","X","Y","Z">>
Lower == <<"a","b","c","d","e","f","g","h","i","j","k","l","m",
           "n","o","p","q","r","s","t","u","v","w","x","y","z">>
Digits == <<"0","1","2","3","4","5","6","7","8","9">>
HexDigits == Digits \o <<"a","b","c","d","e","f">>

\* String.prototype.toLowerCase, character by character.
LowerChar(c) ==
  IF \E i \in 1..Len(Upper) : Upper[i] = c
  THEN Lower[CHOOSE i \in 1..Len(Upper) : Upper[i] = c]
  ELSE c
ToLowerCase(s) == [i \in 1..Len(s) |-> LowerChar(s[i])]

\* String.prototype.indexOf: the 0-based position of the first occurrence of
\* sub in s, -1 when there is none.
Min(S) == CHOOSE i \in S : \A k \in S : i <= k
Occurrences(s, sub) ==
  {i \in 0..(Len(s) - Len(sub)) : \A j \in 1..Len(sub) : s[i + j] = sub[j]}
IndexOf(s, sub) ==
  IF Occurrences(s, sub) = {} THEN -1 ELSE Min(Occurrences(s, sub))

IsDigit(c) == \E i \in 1..10 : Digits[i] = c
DigitVal(c) == (CHOOSE i \in 1..16 : HexDigits[i] = c) - 1
IsHexDigit(c) == \E i \in 1..16 : HexDigits[i] = LowerChar(c)

RECURSIVE Pow10(_)
Pow10(k) == IF k = 0 THEN 1 ELSE 10 * Pow10(k - 1)

\* The value of a run of digits in the given base.
RECURSIVE DigitsVal(_, _)
DigitsVal(s, base) ==
  IF s = <<>> THEN 0
  ELSE DigitsVal(SubSeq(s, 1, Len(s) - 1), base) * base
         + DigitVal(LowerChar(s[Len(s)]))

RECURSIVE TrimLeft(_)
TrimLeft(s) == IF s # <<>> /\ s[1] = " " THEN TrimLeft(Tail(s)) ELSE s
RECURSIVE TrimRight(_)
TrimRight(s) ==
  IF s # <<>> /\ s[Len(s)] = " " THEN TrimRight(SubSeq(s, 1, Len(s) - 1)) ELSE s
Trim(s) == TrimRight(TrimLeft(s))

\* An unsigned decimal literal: digits, optionally with one "." in it.
AllDigits(s) == \A i \in 1..Len(s) : IsDigit(s[i])
\* The value of the integer part ip and the fraction part fp of a literal.
Decimal(ip, fp) ==
  IF (ip = <<>> /\ fp = <<>>) \/ ~AllDigits(ip) \/ ~AllDigits(fp) THEN NaN
  ELSE Frac(DigitsVal(ip, 10) * Pow10(Len(fp)) + DigitsVal(fp, 10),
            Pow10(Len(fp)))
\* The literal before and after its first "." (dot is its 0-based position,
\* -1 when there is none).
SplitDecimal(s, dot) ==
  IF dot = -1 THEN Decimal(s, <<>>)
  ELSE Decimal(SubSeq(s, 1, dot), SubSeq(s, dot + 2, Len(s)))
UnsignedDecimal(s) == SplitDecimal(s, IndexOf(s, <<".">>))

Negate(x) == [t |-> "number", n |-> -x.n, d |-> x.d]

\* Number(string): surrounding blanks are dropped, the empty string is 0, a
\* "0x" prefix reads hexadecimal digits, "Infinity" is infinite, an optional
\* sign precedes a decimal literal; everything else is NaN.  (Exponent
\* notation is outside the alphabet of the model.)
Magnitude(body) ==
  IF body = <<"I","n","f","i","n","i","t","y">> THEN Infinity
  ELSE UnsignedDecimal(body)
HasHexPrefix(s) == Len(s) >= 2 /\ s[1] = "0" /\ LowerChar(s[2]) = "x"
HexLiteral(s) ==
  IF Len(s) > 2 /\ \A i \in 3..Len(s) : IsHexDigit(s[i])
  THEN Num(DigitsVal(SubSeq(s, 3, Len(s)), 16))
  ELSE NaN
\* sign is -1 or 1.
Signed(sign, mag) == IF sign = -1 THEN Negate(mag) ELSE mag
TrimmedToNumber(s) ==
  IF s = <<>> THEN Num(0)
  ELSE IF HasHexPrefix(s) THEN HexLiteral(s)
  ELSE Signed(IF s[1] = "-" THEN -1 ELSE 1,
              Magnitude(IF s[1] \in {"-", "+"} THEN Tail(s) ELSE s))
StrToNumber(s) == TrimmedToNumber(Trim(s))

\* The decimal digits of a natural number.
RECURSIVE NatToStr(_)
NatToStr(n) ==
  IF n < 10 THEN <<Digits[n + 1]>>
  ELSE NatToStr(n \div 10) \o <<Digits[(n % 10) + 1]>>

\* The fraction digits of r/d (0 <= r < d), d a product of 2s and 5s.
RECURSIVE FracDigits(_, _)
FracDigits(r, d) ==
  IF r = 0 THEN <<>>
  ELSE <<Digits[((r * 10) \div d) + 1]>> \o FracDigits((r * 10) % d, d)

\* Number.prototype.toString for the numbers of the model: integers and
\* fractions with a terminating decimal expansion.
NumToStr(x) ==
  IF x.d = 0
  THEN (IF x.n = 0 THEN <<"N","a","N">>
        ELSE IF x.n > 0 THEN <<"I","n","f","i","n","i","t","y">>
        ELSE <<"-","I","n","f","i","n","i","t","y">>)
  ELSE (IF x.n < 0 THEN <<"-">> ELSE <<>>)
         \o NatToStr(Abs(x.n) \div x.d)
         \o (IF Abs(x.n) % x.d = 0 THEN <<>>
             ELSE <<".">> \o FracDigits(Abs(x.n) % x.d, x.d))

\* ---------------------------------------------------------------------------
\* JavaScript conversions and arithmetic
\* ---------------------------------------------------------------------------
\* String(v); array elements are joined with "," and null/undefined elements
\* print as the empty string.
RECURSIVE JSToString(_)
RECURSIVE JoinElems(_)
JoinElems(a) ==
  IF a = <<>> THEN <<>>
  ELSE (IF LooseNull(a[1]) THEN <<>> ELSE JSToString(a[1]))
         \o (IF Len(a) = 1 THEN <<>> ELSE <<",">> \o JoinElems(Tail(a)))
JSToString(v) ==
  CASE v.t = "undefined" -> <<"u","n","d","e","f","i","n","e","d">>
    [] v.t = "null" -> <<"n","u","l","l">>
    [] v.t = "boolean" -> IF v.b THEN <<"t","r","u","e">> ELSE <<"f","a","l","s","e">>
    [] v.t = "number" -> NumToStr(v)
    [] v.t = "string" -> v.s
    [] v.t = "array" -> JoinElems(v.a)
    [] v.t = "object" ->
         <<"[","o","b","j","e","c","t"," ","O","b","j","e","c","t","]">>

\* ToNumber(v).
ToNumber(v) ==
  CASE v.t = "undefined" -> NaN
    [] v.t = "null" -> Num(0)
    [] v.t = "boolean" -> IF v.b THEN Num(1) ELSE Num(0)
    [] v.t = "number" -> v
    [] v.t \in {"string", "array"} -> StrToNumber(JSToString(v))
    [] v.t = "object" -> NaN

NumAdd(x, y) ==
  IF IsNaN(x) \/ IsNaN(y) THEN NaN
  ELSE IF x.d = 0 /\ y.d = 0 THEN (IF x.n = y.n THEN x ELSE NaN)
  ELSE IF x.d = 0 THEN x
  ELSE IF y.d = 0 THEN y
  ELSE Frac(x.n * y.d + y.n * x.d, x.d * y.d)
NumSub(x, y) == NumAdd(x, Negate(y))
NumMul(x, y) ==
  IF IsNaN(x) \/ IsNaN(y) THEN NaN
  ELSE IF x.d = 0 \/ y.d = 0
  THEN Frac(Sign(x.n) * Sign(y.n), 0)
  ELSE Frac(x.n * y.n, x.d * y.d)
NumDiv(x, y) ==
  IF IsNaN(x) \/ IsNaN(y) THEN NaN
  ELSE IF x.d = 0 THEN (IF y.d = 0 THEN NaN
                        ELSE Frac(x.n * (IF y.n < 0 THEN -1 ELSE 1), 0))
  ELSE IF y.d = 0 THEN Num(0)
  ELSE IF y.n = 0 THEN Frac(Sign(x.n), 0)
  ELSE Frac(x.n * y.d, x.d * y.n)
\* The integer part of a finite number.
Trunc(q) == Sign(q.n) * (Abs(q.n) \div q.d)
\* The remainder has the sign of the dividend: x - y * trunc(x / y).
NumMod(x, y) ==
  IF IsNaN(x) \/ IsNaN(y) \/ x.d = 0 \/ IsZero(y) THEN NaN
  ELSE IF y.d = 0 THEN x
  ELSE NumSub(x, NumMul(y, Num(Trunc(NumDiv(x, y)))))

RECURSIVE IntPow(_, _)
IntPow(b, e) == IF e = 0 THEN 1 ELSE b * IntPow(b, e - 1)
\* Math.pow for a finite base and an integer exponent, and for a NaN operand.
NumPow(x, y) ==
  CASE IsNaN(y) -> NaN
    [] IsZero(y) -> Num(1)
    [] ~IsNaN(y) /\ ~IsZero(y) /\ IsNaN(x) -> NaN
    [] IsFinite(x) /\ IsFinite(y) /\ y.d = 1 /\ y.n > 0 ->
         Frac(IntPow(x.n, y.n), IntPow(x.d, y.n))
    [] IsFinite(x) /\ IsFinite(y) /\ y.d = 1 /\ y.n < 0 ->
         Frac(IntPow(x.d, -y.n), IntPow(x.n, -y.n))

\* The binary + operator: concatenation when an operand is (or converts to) a
\* string, numeric addition otherwise.
JSPlus(a, b) ==
  IF a.t \in {"string", "array", "object"} \/ b.t \in {"string", "array", "object"}
  THEN Str(JSToString(a) \o JSToString(b))
  ELSE NumAdd(ToNumber(a), ToNumber(b))

\* ToPrimitive: arrays and objects become their string form.
ToPrimitive(v) == IF v.t \in {"array", "object"} THEN Str(JSToString(v)) ELSE v

\* The characters of the model in the order of their character codes.
CharOrder ==
  <<" ", "%", "*", "+", ",", "-", ".", "/">> \o Digits \o Upper
    \o <<"[", "]", "^">> \o Lower
CharCode(c) == CHOOSE i \in 1..Len(CharOrder) : CharOrder[i] = c
\* s < t for strings: by the first character that differs, a proper prefix
\* being smaller.
RECURSIVE StrLess(_, _)
StrLess(s, t) ==
  IF t = <<>> THEN FALSE
  ELSE IF s = <<>> THEN TRUE
  ELSE IF s[1] = t[1] THEN StrLess(Tail(s), Tail(t))
  ELSE CharCode(s[1]) < CharCode(t[1])

NumLess(x, y) ==
  IF IsNaN(x) \/ IsNaN(y) THEN FALSE
  ELSE IF x.d = 0 THEN x.n < 0 /\ ~(y.d = 0 /\ y.n < 0)
  ELSE IF y.d = 0 THEN y.n > 0
  ELSE x.n * y.d < y.n * x.d
NumLessEq(x, y) == ~IsNaN(x) /\ ~IsNaN(y) /\ ~NumLess(y, x)
\* p < p2 and p <= p2 for primitive values: two strings compare as strings,
\* everything else as numbers.
PrimLess(p, p2) ==
  IF p.t = "string" /\ p2.t = "string" THEN StrLess(p.s, p2.s)
  ELSE NumLess(ToNumber(p), ToNumber(p2))
PrimLessEq(p, p2) ==
  IF p.t = "string" /\ p2.t = "string" THEN ~StrLess(p2.s, p.s)
  ELSE NumLessEq(ToNumber(p), ToNumber(p2))

\* The == operator on primitive values.
NumEq(x, y) == ~IsNaN(x) /\ x = y
LooseEquals(a, b) ==
  IF LooseNull(a) \/ LooseNull(b) THEN LooseNull(a) /\ LooseNull(b)
  ELSE IF a.t = b.t THEN a = b /\ ~IsNaN(a)
  ELSE NumEq(ToNumber(a), ToNumber(b))

\* ---------------------------------------------------------------------------
\* Helpers (helpers.ts) and ProcessValue (conditionProcessValue.ts)
\* ---------------------------------------------------------------------------
\* Helpers.isValueEmpty: null, undefined, the empty string and the empty
\* sequence are empty; 0 and false are values.
IsValueEmpty(v) ==
  \/ v.t \in {"undefined", "null"}
  \/ v = EmptyStr
  \/ v = Arr(<<>>)

\* Helpers.isTwoValueEquals: deep, type-normalizing equality; primitives
\* compare by value (a number equals the numeric string of the same value),
\* sequences element-wise, objects key-wise.
RECURSIVE IsTwoValueEquals(_, _)
IsTwoValueEquals(x, y) ==
  IF x = y /\ ~IsNaN(x) THEN TRUE
  ELSE IF Truthy(x) # Truthy(y) THEN FALSE
  ELSE IF x.t = "array" /\ y.t = "array"
  THEN Len(x.a) = Len(y.a)
         /\ \A i \in 1..Len(x.a) : IsTwoValueEquals(x.a[i], y.a[i])
  ELSE IF x.t = "object" /\ y.t = "object"
  THEN DOMAIN x.f = DOMAIN y.f
         /\ \A k \in DOMAIN x.f : IsTwoValueEquals(x.f[k], y.f[k])
  ELSE IF x.t \in {"array", "object"} \/ y.t \in {"array", "object"} THEN FALSE
  ELSE LooseEquals(x, y)

\* The end of the leading identifier of a path: the position of the first
\* "." or "[" (Len + 1 when the path is a plain name).
FirstNameEnd(name) ==
  LET stops == {i \in 1..Len(name) : name[i] \in {".", "["}}
  IN IF stops = {} THEN Len(name) + 1
     ELSE CHOOSE i \in stops : \A k \in stops : i <= k
\* ProcessValue.getFirstName: the leading identifier of a path.
GetFirstName(name) == SubSeq(name, 1, FirstNameEnd(name) - 1)

\* The segments of what follows the leading identifier: ".ident" gives the
\* field name ident, "[i]" gives the index i.
RECURSIVE PathSegments(_)
PathSegments(rest) ==
  IF rest = <<>> THEN <<>>
  ELSE IF rest[1] = "."
  THEN LET body == Tail(rest)
           e == FirstNameEnd(body)
       IN <<[field |-> SubSeq(body, 1, e - 1)]>>
            \o PathSegments(SubSeq(body, e, Len(body)))
  ELSE LET close == IndexOf(rest, <<"]">>)
       IN <<[index |-> DigitsVal(SubSeq(rest, 2, close), 10)]>>
            \o PathSegments(SubSeq(rest, close + 2, Len(rest)))

\* Reading along the segments; undefined as soon as a segment is absent.
RECURSIVE WalkGet(_, _)
WalkGet(v, segs) ==
  IF segs = <<>> THEN v
  ELSE LET sg == segs[1]
       IN IF "field" \in DOMAIN sg
          THEN (IF v.t = "object" /\ sg.field \in DOMAIN v.f
                THEN WalkGet(v.f[sg.field], Tail(segs)) ELSE Undefined)
          ELSE (IF v.t = "array" /\ sg.index < Len(v.a)
                THEN WalkGet(v.a[sg.index + 1], Tail(segs)) ELSE Undefined)

\* Writing along the segments, creating an intermediate map where the path
\* continues through a value that is not one.
RECURSIVE WalkSet(_, _, _)
WalkSet(v, segs, value) ==
  IF segs = <<>> THEN value
  ELSE LET sg == segs[1]
       IN IF "field" \in DOMAIN sg
          THEN LET f == IF v.t = "object" THEN v.f ELSE << >>
                   old == IF sg.field \in DOMAIN f THEN f[sg.field] ELSE Undefined
               IN Obj([k \in (DOMAIN f) \cup {sg.field} |->
                        IF k = sg.field THEN WalkSet(old, Tail(segs), value)
                        ELSE f[k]])
          ELSE IF v.t = "array" /\ sg.index < Len(v.a)
          THEN Arr([i \in 1..Len(v.a) |->
                     IF i = sg.index + 1
                     THEN WalkSet(v.a[i], Tail(segs), value) ELSE v.a[i]])
          ELSE v

\* The key of the store that a name written in an expression denotes: the
\* key equal to the leading identifier ignoring letter case.
KeysFor(store, name) ==
  {k \in DOMAIN store : ToLowerCase(k) = ToLowerCase(GetFirstName(name))
                          /\ store[k] # Undefined}
\* ProcessValue.getValue(path, store).
PVGetValue(store, name) ==
  IF name = <<>> \/ KeysFor(store, name) = {} THEN Undefined
  ELSE LET k == CHOOSE x \in KeysFor(store, name) : TRUE
       IN WalkGet(store[k],
                  PathSegments(SubSeq(name, FirstNameEnd(name), Len(name))))
\* ProcessValue.hasValue(path, store).
PVHasValue(store, name) == PVGetValue(store, name) # Undefined
\* ProcessValue.setValue(store, path, value): the store with the value
\* written at the path.
PVSetValue(store, name, value) ==
  IF name = <<>> \/ GetFirstName(name) \notin DOMAIN store THEN store
  ELSE [store EXCEPT ![GetFirstName(name)] =
          WalkSet(@, PathSegments(SubSeq(name, FirstNameEnd(name), Len(name))),
                  value)]

\* ---------------------------------------------------------------------------
\* Operator registry (OperandMaker)
\* ---------------------------------------------------------------------------
ArithmeticNames == {"plus", "minus", "mul", "div", "mod", "power"}
ComparisonNames == {"greater", "less", "greaterorequal", "lessorequal"}
\* The keys of OperandMaker.binaryFunctions.
BinaryFunctionNames ==
  {"arithmeticOp", "and", "or"} \cup ArithmeticNames \cup ComparisonNames
    \cup {"equal", "notequal", "contains", "notcontains", "anyof", "allof",
          "containsCore"}
\* The keys of OperandMaker.unaryFunctions.
UnaryFunctionNames == {"empty", "notempty", "negate"}

\* minus, mul, div, mod and power on the operands as numbers; div and mod
\* give null when the right operand b is falsy.
NumericFunction(name, b, x, y) ==
  CASE name = "minus" -> NumSub(x, y)
    [] name = "mul" -> NumMul(x, y)
    [] name = "div" -> IF ~Truthy(b) THEN Null ELSE NumDiv(x, y)
    [] name = "mod" -> IF ~Truthy(b) THEN Null ELSE NumMod(x, y)
    [] name = "power" -> NumPow(x, y)
\* greater, less, greaterorequal and lessorequal on operands that are not
\* null.
RelationalFunction(name, left, right) ==
  CASE name = "greater" -> PrimLess(right, left)
    [] name = "less" -> PrimLess(left, right)
    [] name = "greaterorequal" -> PrimLessEq(right, left)
    [] name = "lessorequal" -> PrimLessEq(left, right)

\* greater, less, greaterorequal and lessorequal with every empty operand
\* read as 0 before the comparison.
ComparisonAgainstDefault(name, left, right) ==
  RelationalFunction(name,
    ToPrimitive(IF LooseNull(left) THEN Num(0) ELSE left),
    ToPrimitive(IF LooseNull(right) THEN Num(0) ELSE right))
\* greater, less, greaterorequal and lessorequal: false when an operand is
\* null or undefined.
Comparison(name, left, right) ==
  IF LooseNull(left) \/ LooseNull(right) THEN FALSE
  ELSE RelationalFunction(name, ToPrimitive(left), ToPrimitive(right))

\* containsCore on a left operand that is a sequence: every element of
\* rightArray is looked up in left with Helpers.isTwoValueEquals; the first
\* one that is missing decides.
ContainsInArray(left, rightArray, isContains) ==
  IF \E r \in 1..Len(rightArray) :
       \A i \in 1..Len(left) : ~IsTwoValueEquals(left[i], rightArray[r])
  THEN ~isContains ELSE isContains
\* containsCore on a left operand that is a string: substring search.
ContainsInString(left, right, isContains) ==
  IF ~Truthy(right) THEN FALSE
  ELSE (IndexOf(left, JSToString(right)) > -1) = isContains
\* containsCore once left is known to be truthy and to have a length.
ContainsInLeft(left, right, isContains) ==
  IF left.t = "string" THEN ContainsInString(left.s, right, isContains)
  ELSE ContainsInArray(left.a, IF right.t = "array" THEN right.a ELSE <<right>>,
                       isContains)
\* left.length is truthy: a non-empty string or a non-empty sequence.
HasLength(left) ==
  \/ left.t = "string" /\ Len(left.s) > 0
  \/ left.t = "array" /\ Len(left.a) > 0
\* containsCore(left, right, isContains)
ContainsCore(left, right, isContains) ==
  IF ~Truthy(left) THEN FALSE
  ELSE ContainsInLeft(IF HasLength(left) THEN left ELSE Str(JSToString(left)),
                      right, isContains)
\* contains(left, right)
Contains(left, right) == ContainsCore(left, right, TRUE)
\* notcontains(left, right)
NotContains(left, right) ==
  IF ~Truthy(left) /\ ~IsValueEmpty(right) THEN TRUE
  ELSE ContainsCore(left, right, FALSE)
\* anyof(left, right)
AnyOf(left, right) ==
  IF ~Truthy(left) /\ IsValueEmpty(right) THEN TRUE
  ELSE IF ~Truthy(left) \/ left.t # "array" \/ ~HasLength(left) THEN FALSE
  ELSE IF IsValueEmpty(right) THEN TRUE
  ELSE IF right.t # "array" THEN Contains(left, right)
  ELSE \E i \in 1..Len(right.a) : Contains(left, right.a[i])
\* allof(left, right)
AllOf(left, right) ==
  IF ~Truthy(left) /\ ~IsValueEmpty(right) THEN FALSE
  ELSE IF right.t # "array" THEN Contains(left, right)
  ELSE \A i \in 1..Len(right.a) : Contains(left, right.a[i])
\* contains, notcontains, anyof and allof; containsCore called with two
\* arguments has isContains undefined.
ContainmentFunction(name, left, right) ==
  CASE name = "contains" -> Contains(left, right)
    [] name = "notcontains" -> NotContains(left, right)
    [] name = "anyof" -> AnyOf(left, right)
    [] name = "allof" -> AllOf(left, right)
    [] name = "containsCore" -> ContainsCore(left, right, FALSE)

\* OperandMaker.binaryFunctions[name] applied to (a, b), for the operators
\* that take two evaluated values.
BinaryFunction(name, a, b) ==
  CASE name = "and" -> IF Truthy(a) THEN b ELSE a
    [] name = "or" -> IF Truthy(a) THEN a ELSE b
    [] name = "plus" -> JSPlus(a, b)
    [] name \in {"minus", "mul", "div", "mod", "power"} ->
         NumericFunction(name, b, ToNumber(a), ToNumber(b))
    [] name \in ComparisonNames -> Bool(Comparison(name, a, b))
    [] name \in {"equal", "notequal"} ->
         Bool(IsTwoValueEquals(a, b) = (name = "equal"))
    [] name \in {"contains", "notcontains", "anyof", "allof", "containsCore"} ->
         Bool(ContainmentFunction(name, a, b))

\* The function arithmeticOp(operatorName) returns: empty operands become 0,
\* then the registry is consulted; an operator it does not hold gives null.
ZeroIfEmpty(v) == IF IsValueEmpty(v) THEN Num(0) ELSE v
\* arithmeticOp handing the operands to the registry entry as they are.
ArithmeticOpAsGiven(operatorName, a, b) ==
  IF operatorName \notin BinaryFunctionNames THEN Null
  ELSE BinaryFunction(operatorName, a, b)
ArithmeticOp(operatorName, a, b) ==
  IF operatorName \notin BinaryFunctionNames THEN Null
  ELSE BinaryFunction(operatorName, ZeroIfEmpty(a), ZeroIfEmpty(b))

\* OperandMaker.unaryFunctions[name] applied to a value.
UnaryFunction(name, value) ==
  CASE name = "empty" -> Bool(LooseNull(value) \/ ~Truthy(value))
    [] name = "notempty" -> Bool(~(LooseNull(value) \/ ~Truthy(value)))
    [] name = "negate" -> Bool(~Truthy(value))

\* ---------------------------------------------------------------------------
\* Operand tree
\* ---------------------------------------------------------------------------
\* A child that is null (no operand).
NoOperand == [k |-> "none"]
\* The outcome of a constructor that threw "Invalid operator".
InvalidOperator == [k |-> "threw"]
Const(value) == [k |-> "const", value |-> value]
Variable(variableName) == [k |-> "variable", variableName |-> variableName]
ArrayOperand(values) == [k |-> "array", values |-> values]
\* new FunctionOperand(origionalValue, parameters): an empty array given as
\* the parameters becomes an ArrayOperand without elements.
FunctionOperand(origionalValue, parameters) ==
  [k |-> "function", origionalValue |-> origionalValue,
   parameters |-> IF parameters = <<>> THEN ArrayOperand(<<>>) ELSE parameters]
\* The functions registered with FunctionFactory.Instance: count gives the
\* number of its arguments.
RegisteredFunctions == {"count"}
FunctionFactoryRun(name, parameters) ==
  CASE name = "count" -> Num(Len(parameters))

\* new BinaryOperand(operatorName, left, right, isArithmeticOp): the consumer
\* is the arithmeticOp wrapper when isArithmeticOp, the registry entry
\* otherwise; the constructor throws when the consumer is null.
BinaryConsumerIsNull(operatorName, isArithmeticOp) ==
  IF isArithmeticOp THEN FALSE ELSE operatorName \notin BinaryFunctionNames
BinaryOperand(operatorName, left, right, isArithmeticOp) ==
  IF BinaryConsumerIsNull(operatorName, isArithmeticOp) THEN InvalidOperator
  ELSE [k |-> "binary", operatorName |-> operatorName, left |-> left,
        right |-> right, isArithmeticOp |-> isArithmeticOp]

\* new UnaryOperand(expression, operatorName).
UnaryOperand(expression, operatorName) ==
  IF operatorName \notin UnaryFunctionNames THEN InvalidOperator
  ELSE [k |-> "unary", operatorName |-> operatorName, expression |-> expression]

\* hasFunction(): Operand's own (false) for UnaryOperand, Const and
\* Variable, which do not override it; BinaryOperand, ArrayOperand and
\* FunctionOperand override it.
RECURSIVE HasFunction(_)
HasFunction(op) ==
  CASE op.k = "binary" ->
         \/ op.left.k # "none" /\ HasFunction(op.left)
         \/ op.right.k # "none" /\ HasFunction(op.right)
    [] op.k = "array" ->
         \E i \in 1..Len(op.values) : HasFunction(op.values[i])
    [] op.k = "function" -> TRUE
    [] OTHER -> FALSE

\* Const.isBooleanValue
IsBooleanValue(s) ==
  ToLowerCase(s) \in {<<"t","r","u","e">>, <<"f","a","l","s","e">>}
\* Const.isNumericValue
IsNumericValue(s) ==
  IF \/ IndexOf(s, <<"-">>) > -1
     \/ IndexOf(s, <<"+">>) > 1
     \/ IndexOf(s, <<"*">>) > -1
     \/ IndexOf(s, <<"^">>) > -1
     \/ IndexOf(s, <<"/">>) > -1
     \/ IndexOf(s, <<"%">>) > -1
  THEN FALSE
  ELSE IsFinite(StrToNumber(s))
\* OperandMaker.isNumeric
IsNumeric(s) ==
  IF \/ IndexOf(s, <<"-">>) > -1
     \/ IndexOf(s, <<"+">>) > 1
     \/ IndexOf(s, <<"*">>) > -1
     \/ IndexOf(s, <<"^">>) > -1
     \/ IndexOf(s, <<"/">>) > -1
     \/ IndexOf(s, <<"%">>) > -1
  THEN FALSE
  ELSE IsFinite(StrToNumber(s))
\* parseInt and parseFloat of a string that Number() reads as a finite
\* number: parseFloat reads no digits from a blank string and stops at the
\* "x" of a hexadecimal literal.
ParseFloatTrimmed(s, number) ==
  IF s = <<>> THEN NaN ELSE IF HasHexPrefix(s) THEN Num(0) ELSE number
ParseNumeric(s, number) ==
  IF IndexOf(s, <<"0","x">>) = 0 THEN number
  ELSE ParseFloatTrimmed(Trim(s), number)
\* Const.getCorrectValue with the quotes of a quoted literal removed.
GetCorrectValueUnquoting(value) ==
  IF ~Truthy(value) \/ value.t # "string" THEN value
  ELSE IF Len(value.s) >= 2 /\ value.s[1] = "'" /\ value.s[Len(value.s)] = "'"
  THEN Str(SubSeq(value.s, 2, Len(value.s) - 1))
  ELSE IF IsBooleanValue(value.s)
  THEN Bool(ToLowerCase(value.s) = <<"t","r","u","e">>)
  ELSE IF IsNumericValue(value.s)
  THEN ParseNumeric(value.s, StrToNumber(value.s))
  ELSE value
\* Const.getCorrectValue
GetCorrectValue(value) ==
  IF ~Truthy(value) \/ value.t # "string" THEN value
  ELSE IF IsBooleanValue(value.s)
  THEN Bool(ToLowerCase(value.s) = <<"t","r","u","e">>)
  ELSE IF IsNumericValue(value.s)
  THEN ParseNumeric(value.s, StrToNumber(value.s))
  ELSE value

\* Variable.evaluate with the stored value returned as it is.
VariableValueAsStored(variableName, values) ==
  IF PVHasValue(values, variableName) THEN PVGetValue(values, variableName)
  ELSE Null
\* Variable.evaluate(processValue), variableName already in lower case.
VariableValue(variableName, values) ==
  IF PVHasValue(values, variableName)
  THEN GetCorrectValue(PVGetValue(values, variableName))
  ELSE Null

\* Operand.evaluate(processValue), processValue holding the snapshot values.
RECURSIVE Evaluate(_, _)
Evaluate(op, values) ==
  CASE op.k = "none" -> Null
    [] op.k = "const" -> GetCorrectValue(op.value)
    [] op.k = "variable" -> VariableValue(ToLowerCase(op.variableName), values)
    [] op.k = "function" ->
         FunctionFactoryRun(op.origionalValue,
                            Evaluate(op.parameters, values).a)
    [] op.k = "array" ->
         Arr([i \in 1..Len(op.values) |-> Evaluate(op.values[i], values)])
    [] op.k = "unary" ->
         UnaryFunction(op.operatorName, Evaluate(op.expression, values))
    [] op.k = "binary" ->
         IF op.isArithmeticOp
         THEN ArithmeticOp(op.operatorName, Evaluate(op.left, values),
                           Evaluate(op.right, values))
         ELSE BinaryFunction(op.operatorName, Evaluate(op.left, values),
                             Evaluate(op.right, values))

\* The order of the calls one evaluate() makes: every evaluate call on a
\* node of the tree as it starts, and every FunctionFactory run.
Visit(op) == [e |-> "evaluate", operand |-> op]
RunEvent(name, parameters) ==
  [e |-> "run", name |-> name, parameters |-> parameters]
\* The arguments of the consumer evaluated only as far as they are needed
\* to decide and / or.
ArgumentsTraceShortCircuit(operatorName, leftValue, leftTrace, rightTrace) ==
  IF \/ operatorName = "and" /\ ~Truthy(leftValue)
     \/ operatorName = "or" /\ Truthy(leftValue)
  THEN leftTrace ELSE leftTrace \o rightTrace
\* BinaryOperand.evaluate: the two arguments of the consumer call are
\* evaluated in order, before the consumer is called.
ArgumentsTrace(operatorName, leftValue, leftTrace, rightTrace) ==
  leftTrace \o rightTrace

RECURSIVE EvaluationTrace(_, _)
RECURSIVE ElementsTrace(_, _)
ElementsTrace(ops, values) ==
  IF ops = <<>> THEN <<>>
  ELSE EvaluationTrace(ops[1], values) \o ElementsTrace(Tail(ops), values)
EvaluationTrace(op, values) ==
  CASE op.k = "none" -> <<>>
    [] op.k \in {"const", "variable"} -> <<Visit(op)>>
    [] op.k = "array" -> <<Visit(op)>> \o ElementsTrace(op.values, values)
    [] op.k = "unary" -> <<Visit(op)>> \o EvaluationTrace(op.expression, values)
    [] op.k = "binary" ->
         <<Visit(op)>>
           \o ArgumentsTrace(op.operatorName, Evaluate(op.left, values),
                             EvaluationTrace(op.left, values),
                             EvaluationTrace(op.right, values))
    [] op.k = "function" ->
         <<Visit(op)>> \o EvaluationTrace(op.parameters, values)
           \o <<RunEvent(op.origionalValue, Evaluate(op.parameters, values).a)>>

\* OperandMaker.signs and operatorToString
Signs ==
  [less |-> <<"<">>, lessorequal |-> <<"<", "=">>, greater |-> <<">">>,
   greaterorequal |-> <<">", "=">>, equal |-> <<"=", "=">>,
   notequal |-> <<"!", "=">>, plus |-> <<"+">>, minus |-> <<"-">>,
   mul |-> <<"*">>, div |-> <<"/">>, and |-> <<"&", "&">>,
   or |-> <<"|", "|">>, power |-> <<"^">>, mod |-> <<"%">>,
   negate |-> <<"!">>]
\* An operator name as the characters of the string.
NameChars ==
  [empty |-> <<"e","m","p","t","y">>,
   notempty |-> <<"n","o","t","e","m","p","t","y">>,
   contains |-> <<"c","o","n","t","a","i","n","s">>,
   notcontains |-> <<"n","o","t","c","o","n","t","a","i","n","s">>,
   anyof |-> <<"a","n","y","o","f">>, allof |-> <<"a","l","l","o","f">>,
   containsCore |-> <<"c","o","n","t","a","i","n","s","C","o","r","e">>,
   arithmeticOp |-> <<"a","r","i","t","h","m","e","t","i","c","O","p">>,
   foo |-> <<"f","o","o">>, count |-> <<"c","o","u","n","t">>]
OperatorToString(operatorName) ==
  IF operatorName \in DOMAIN Signs THEN Signs[operatorName]
  ELSE NameChars[operatorName]

\* BinaryOperand.toString without the parentheses.
BinaryToStringBare(symbol, left, right) ==
  left \o <<" ">> \o symbol \o <<" ">> \o right
\* BinaryOperand.toString, given the texts of its parts.
BinaryToString(symbol, left, right) ==
  <<"(">> \o left \o <<" ">> \o symbol \o <<" ">> \o right \o <<")">>

\* Array.prototype.join(", ") of the texts.
RECURSIVE JoinTexts(_)
JoinTexts(texts) ==
  IF texts = <<>> THEN <<>>
  ELSE IF Len(texts) = 1 THEN texts[1]
  ELSE texts[1] \o <<",", " ">> \o JoinTexts(Tail(texts))

\* toString() returns: it throws where it calls toString on null or
\* undefined (a Const holding one, a UnaryOperand or a FunctionOperand
\* without its operand, an array element that is missing).
RECURSIVE ToStringReturns(_)
ToStringReturns(op) ==
  CASE op.k = "none" -> TRUE
    [] op.k = "const" -> ~LooseNull(op.value)
    [] op.k = "variable" -> TRUE
    [] op.k = "array" ->
         \A i \in 1..Len(op.values) :
           op.values[i].k # "none" /\ ToStringReturns(op.values[i])
    [] op.k = "unary" ->
         op.expression.k # "none" /\ ToStringReturns(op.expression)
    [] op.k = "binary" -> ToStringReturns(op.left) /\ ToStringReturns(op.right)
    [] op.k = "function" ->
         op.parameters.k # "none" /\ ToStringReturns(op.parameters)

\* Operand.toString(); OperandMaker.safeToString gives "" for a missing
\* operand.
RECURSIVE OperandToString(_)
OperandToString(op) ==
  CASE op.k = "none" -> <<>>
    [] op.k = "const" -> JSToString(op.value)
    [] op.k = "variable" -> <<"{">> \o op.variableName \o <<"}">>
    [] op.k = "array" ->
         <<"[">>
           \o JoinTexts([i \in 1..Len(op.values) |->
                           OperandToString(op.values[i])])
           \o <<"]">>
    [] op.k = "unary" ->
         OperatorToString(op.operatorName) \o OperandToString(op.expression)
    [] op.k = "binary" ->
         BinaryToString(OperatorToString(op.operatorName),
                        OperandToString(op.left), OperandToString(op.right))
    [] op.k = "function" ->
         NameChars[op.origionalValue] \o <<"(">>
           \o OperandToString(op.parameters) \o <<")">>

\* ---------------------------------------------------------------------------
\* Validators (validator.ts)
\* ---------------------------------------------------------------------------
\* The errors a validator creates, and what validate returns when it does
\* not return null.
RequreNumericError == [class |-> "RequreNumericError"]
CustomError == [class |-> "CustomError"]
ValidatorResult(value, error) == [value |-> value, error |-> error]

\* parseFloat(string): the value of the longest prefix, after leading
\* blanks, that is a signed decimal literal or Infinity; NaN if there is
\* none (a hexadecimal literal is read up to its "x").
IsFloatPrefix(p) ==
  /\ p # <<>> /\ p[Len(p)] # " "
  /\ ~HasHexPrefix(p)
  /\ ~IsNaN(TrimmedToNumber(p))
FloatPrefixes(t) == {k \in 1..Len(t) : IsFloatPrefix(SubSeq(t, 1, k))}
LongestPrefix(t, lengths) ==
  IF lengths = {} THEN NaN
  ELSE TrimmedToNumber(SubSeq(t, 1, CHOOSE k \in lengths :
                                      \A j \in lengths : j <= k))
ParseFloat(s) == LongestPrefix(TrimLeft(s), FloatPrefixes(TrimLeft(s)))

\* new NumericValidator(minValue, maxValue)
NumericValidator(minValue, maxValue) ==
  [type |-> "numericvalidator", minValue |-> minValue, maxValue |-> maxValue]
\* NumericValidator.isNumber
IsNumber(value) ==
  ~IsNaN(ParseFloat(JSToString(value))) /\ IsFinite(ToNumber(value))
\* NumericValidator.validate
NumericValidate(validator, value) ==
  IF IsValueEmpty(value) THEN Null
  ELSE IF ~IsNumber(value) THEN ValidatorResult(Null, RequreNumericError)
  ELSE LET parsed == ParseFloat(JSToString(value))
       IN IF validator.minValue # Null
               /\ NumLess(parsed, validator.minValue)
          THEN ValidatorResult(parsed, CustomError)
          ELSE IF validator.maxValue # Null
                    /\ NumLess(validator.maxValue, parsed)
          THEN ValidatorResult(parsed, CustomError)
          ELSE IF value.t = "number" THEN Null
          ELSE ValidatorResult(parsed, Null)

\* new TextValidator(minLength, maxLength, allowDigits)
TextValidator(minLength, maxLength, allowDigits) ==
  [type |-> "textvalidator", minLength |-> minLength,
   maxLength |-> maxLength, allowDigits |-> allowDigits]
\* /^[A-Za-z\s]*$/.test(value)
IsLettersAndBlanks(s) ==
  \A i \in 1..Len(s) :
    \/ s[i] = " "
    \/ \E j \in 1..Len(Lower) : s[i] = Lower[j] \/ s[i] = Upper[j]
\* value.length < bound and value.length > bound: false for a value that
\* has no length.
LengthBelow(value, bound) ==
  /\ value.t \in {"string", "array"}
  /\ Len(IF value.t = "string" THEN value.s ELSE value.a) < bound
LengthAbove(value, bound) ==
  /\ value.t \in {"string", "array"}
  /\ Len(IF value.t = "string" THEN value.s ELSE value.a) > bound
\* TextValidator.validate with the length bounds tested although they are 0.
TextValidateZeroBound(validator, value) ==
  IF value # EmptyStr /\ IsValueEmpty(value) THEN Null
  ELSE IF ~validator.allowDigits /\ ~IsLettersAndBlanks(JSToString(value))
  THEN ValidatorResult(Null, CustomError)
  ELSE IF LengthBelow(value, validator.minLength)
  THEN ValidatorResult(Null, CustomError)
  ELSE IF LengthAbove(value, validator.maxLength)
  THEN ValidatorResult(Null, CustomError)
  ELSE Null
\* TextValidator.validate
TextValidate(validator, value) ==
  IF value # EmptyStr /\ IsValueEmpty(value) THEN Null
  ELSE IF ~validator.allowDigits /\ ~IsLettersAndBlanks(JSToString(value))
  THEN ValidatorResult(Null, CustomError)
  ELSE IF validator.minLength > 0 /\ LengthBelow(value, validator.minLength)
  THEN ValidatorResult(Null, CustomError)
  ELSE IF validator.maxLength > 0 /\ LengthAbove(value, validator.maxLength)
  THEN ValidatorResult(Null, CustomError)
  ELSE Null

\* new RegexValidator(regex)
RegexValidator(regex) == [type |-> "regexvalidator", regex |-> regex]
\* The patterns of the model: one or more lower-case letters, one or more
\* digits (both anchored at both ends), and an "a" anywhere.
LowerPattern == Str(<<"^", "[", "a", "-", "z", "]", "+", "$">>)
DigitsPattern == Str(<<"^", "[", "0", "-", "9", "]", "+", "$">>)
HasAPattern == Str(<<"a">>)
\* new RegExp(regex).test(value): the value is converted to a string.
RegExpTest(regex, value) ==
  LET text == JSToString(value)
  IN CASE regex = LowerPattern ->
            /\ text # <<>>
            /\ \A i \in 1..Len(text) : \E j \in 1..Len(Lower) : text[i] = Lower[j]
       [] regex = DigitsPattern -> text # <<>> /\ AllDigits(text)
       [] regex = HasAPattern -> \E i \in 1..Len(text) : text[i] = "a"
\* RegexValidator.hasError
HasError(regex, value) ==
  IF RegExpTest(regex, value) THEN Null
  ELSE ValidatorResult(value, CustomError)
\* The elements of a sequence that fail the pattern.
FailingElements(regex, value) ==
  {i \in 1..Len(value.a) : ~RegExpTest(regex, value.a[i])}
\* RegexValidator.validate
RegexValidate(validator, value) ==
  IF ~Truthy(validator.regex) \/ IsValueEmpty(value) THEN Null
  ELSE IF value.t = "array" /\ FailingElements(validator.regex, value) # {}
  THEN HasError(validator.regex,
                value.a[Min(FailingElements(validator.regex, value))])
  ELSE HasError(validator.regex, value)

\* ConditionRunner.run(values, properties): the condition as a boolean.
RunCondition(expression, values) == Truthy(Evaluate(expression, values))

\* The expression texts of the model and the trees the expression compiler
\* makes of them.
va == <<"a">>
vb == <<"b">>
SumIsFiveText ==
  Str(<<"{", "a", "}", " ", "+", " ", "{", "b", "}", " ", "=", "=", " ", "5">>)
SumIsSixText ==
  Str(<<"{", "a", "}", " ", "+", " ", "{", "b", "}", " ", "=", "=", " ", "6">>)
AIsTwoText == Str(<<"{", "a", "}", " ", "=", " ", "2">>)
SumIs(n) ==
  BinaryOperand("equal",
                BinaryOperand("plus", Variable(va), Variable(vb), TRUE),
                Const(Num(n)), FALSE)
Compile(text) ==
  CASE text = SumIsFiveText -> SumIs(5)
    [] text = SumIsSixText -> SumIs(6)
    [] text = AIsTwoText ->
         BinaryOperand("equal", Variable(va), Const(Num(2)), FALSE)
\* new ConditionRunner(expression), and the runner after its expression
\* is assigned: the tree is compiled again when the text differs.
ConditionRunner(expression) ==
  [expression |-> expression, tree |-> Compile(expression)]
SetRunnerExpression(runner, expression) ==
  IF runner.expression = expression THEN runner
  ELSE ConditionRunner(expression)

\* new ExpressionValidator(): no expression, no condition runner yet;
\* runners counts the condition runners the validator has created.
ExpressionValidator ==
  [type |-> "expressionvalidator", expression |-> Undefined,
   conditionRunner |-> Null, runners |-> 0]
\* The validator once validateAllValues has made sure it has a runner.
WithRunner(validator) ==
  IF validator.conditionRunner = Null
  THEN [validator EXCEPT !.conditionRunner = ConditionRunner(validator.expression),
                         !.runners = @ + 1]
  ELSE validator
\* What validateAllValues leaves and returns.
Validated(validator, result) == [validator |-> validator, result |-> result]
ExpressionResult(validator, value, values) ==
  Validated(validator,
            IF RunCondition(validator.conditionRunner.tree, values) THEN Null
            ELSE ValidatorResult(value, CustomError))
\* ExpressionValidator.validateAllValues without the assignment of the
\* expression to the runner.
ExpressionValidateAllValuesStale(validator, value, values) ==
  IF ~Truthy(validator.expression) THEN Validated(validator, Null)
  ELSE ExpressionResult(WithRunner(validator), value, values)
\* ExpressionValidator.validateAllValues
ExpressionValidateAllValues(validator, value, values) ==
  IF ~Truthy(validator.expression) THEN Validated(validator, Null)
  ELSE ExpressionResult(
         [WithRunner(validator) EXCEPT !.conditionRunner =
            SetRunnerExpression(@, validator.expression)],
         value, values)

\* validator.isValidateAllValues
IsValidateAllValues(validator) == validator.type = "expressionvalidator"
\* validator.validate(value): SurveyValidator.validate returns null.
Validate(validator, value) ==
  CASE validator.type = "numericvalidator" -> NumericValidate(validator, value)
    [] validator.type = "textvalidator" -> TextValidate(validator, value)
    [] validator.type = "regexvalidator" -> RegexValidate(validator, value)
    [] OTHER -> Null

\* The calls ValidatorRunner.run makes.
ValidateCall(i, value) == [method |-> "validate", validator |-> i, value |-> value]
ValidateAllValuesCall(i, value, values) ==
  [method |-> "validateAllValues", validator |-> i, value |-> value,
   values |-> values]
\* res.push(validatorResult.error) with room for one error only.
PushErrorFirstOnly(res, validatorResult) ==
  IF res = <<>> /\ validatorResult # Null /\ validatorResult.error # Null
  THEN Append(res, validatorResult.error) ELSE res
\* res.push(validatorResult.error) if there is a result that has an error.
PushError(res, validatorResult) ==
  IF validatorResult # Null /\ validatorResult.error # Null
  THEN Append(res, validatorResult.error) ELSE res
\* ValidatorRunner.run from validator i on; run holds the owner, the
\* errors and the calls so far.
RECURSIVE RunLoop(_, _)
RunLoop(run, i) ==
  IF i > Len(run.owner.validators) THEN run
  ELSE LET validator == run.owner.validators[i]
           value == run.owner.validatedValue
       IN IF ~IsValidateAllValues(validator)
          THEN RunLoop([run EXCEPT
                          !.calls = Append(@, ValidateCall(i, value)),
                          !.res = PushError(@, Validate(validator, value))],
                       i + 1)
          ELSE LET done == ExpressionValidateAllValues(validator, value,
                                                       run.owner.values)
               IN RunLoop([run EXCEPT
                             !.calls = Append(@, ValidateAllValuesCall(
                                                   i, value, run.owner.values)),
                             !.res = PushError(@, done.result),
                             !.owner.validators[i] = done.validator],
                          i + 1)
\* ValidatorRunner.run(owner)
ValidatorRunnerRun(owner) ==
  RunLoop([owner |-> owner, res |-> <<>>, calls |-> <<>>], 1)

\* ---------------------------------------------------------------------------
\* State
\* ---------------------------------------------------------------------------
VARIABLES
  \* --- SurveyModel ---
  valuesHash,           \* the value store: question value name -> value
  variablesHash,        \* the variables: lower-cased name -> value
  conditionVersion,     \* the snapshot counter
  isCompleted,          \* the 'completed' flag
  currentPageValue,     \* index of the current page in Pages, 0 for null
  questionErrors,       \* question name -> number of errors it holds
  triggers,             \* the survey's triggers, in registration order
  hasServerValidation,  \* onServerValidateQuestions has a handler
  isValidatingOnServer, \* the 'pending' flag of server validation
  serverOptions,        \* the options objects doServerValidation has created
  onCompleteCount,      \* how many times onComplete has fired
  onCompleteSinceClear, \* how many times since the last call of clear()
  allowComplete,        \* what the onCompleting handlers leave in
                        \* options.allowComplete (true without a handler)
  cookieName,           \* the cookieName property, "" when not set
  clearInvisibleValues, \* the clearInvisibleValues property
  documentCookie,       \* document.cookie holds cookieName + "=true"
  isTimerStarted,       \* the timer is running
  pages,                \* the survey's pages, each a list of questions
  firstPageIsStarted,   \* the firstPageIsStarted property
  mode,                 \* the mode property: "edit" or "display"
  isDesignMode,         \* the survey is in design mode
  isLoading,            \* the survey is being loaded from the service
  isCompletedBefore,    \* the service reported the survey completed
  isStartedState,       \* the started page is showing
  timeSpent,            \* the seconds spent on the survey
  pageTimeSpent,        \* page.timeSpent of every page
  maxTimeToFinish,      \* the maxTimeToFinish property
  maxTimeToFinishPage,  \* the maxTimeToFinishPage property
  pageMaxTimeToFinish,  \* page.maxTimeToFinish of every page
  \* --- observation of the last public call ---
  trace,                \* what the last call did, step by step
  snapshotLog,          \* conditionVersion of every snapshot built so far
  thrown,               \* the last call ended with a call stack overflow
  cycle,                \* the last call re-entered setValue with the state
                        \* of an enclosing, still active setValue
  returned,             \* what the last call returned
  opCount,              \* number of public calls made and operands built
  \* --- operand under construction and evaluation ---
  operand,              \* the last constructed operand (or InvalidOperator)
  ctorArgs,             \* the arguments the constructor was given
  evalResult,           \* the value evaluate() returned, NotEvaluated before
  evalTrace,            \* the calls the last evaluate() made, in order
  printed,              \* what toString() returned, NotPrinted before
  hasFunctionResult,    \* what hasFunction() returned, NotAsked before
  \* --- validators ---
  validator,            \* the validator last constructed, with its fields
  validated,            \* the last validate / validateAllValues call
  runnerRun,            \* the last ValidatorRunner.run call
  \* --- the questions of the survey ---
  questions,            \* the questions added to the survey, in order
  questionHashes,       \* the four hashes: name -> the questions under it
  found                 \* what the last question lookup returned

vars == <<valuesHash, variablesHash, conditionVersion, isCompleted,
          currentPageValue, questionErrors, triggers, hasServerValidation,
          isValidatingOnServer, serverOptions, onCompleteCount,
          onCompleteSinceClear, trace,
          snapshotLog, thrown, cycle, returned, opCount, operand, ctorArgs,
          evalResult, evalTrace, printed, validator, validated, runnerRun,
          allowComplete, cookieName, clearInvisibleValues, documentCookie,
          isTimerStarted, pages, firstPageIsStarted, mode, isDesignMode,
          isLoading, isCompletedBefore, isStartedState, questions,
          questionHashes, found, hasFunctionResult, timeSpent,
          pageTimeSpent, maxTimeToFinish, maxTimeToFinishPage,
          pageMaxTimeToFinish>>
questionVars == <<questions, questionHashes, found>>
operandVars == <<operand, ctorArgs, evalResult, evalTrace, printed,
                 hasFunctionResult, opCount>>
validatorVars == <<validator, validated, runnerRun>>
\* The survey apart from its pages and its questions.
surveyVars == <<valuesHash, variablesHash, conditionVersion, isCompleted,
                currentPageValue, questionErrors, triggers,
                hasServerValidation, isValidatingOnServer, serverOptions,
                onCompleteCount, onCompleteSinceClear, trace, snapshotLog,
                thrown, cycle, returned,
                allowComplete, cookieName, clearInvisibleValues,
                documentCookie, isTimerStarted, firstPageIsStarted,
                mode, isDesignMode, isLoading, isCompletedBefore,
                isStartedState, timeSpent, pageTimeSpent, maxTimeToFinish,
                maxTimeToFinishPage, pageMaxTimeToFinish>>
stateVars == <<surveyVars, pages, questionVars>>

\* evalResult before evaluate() has been called, and after it returned
\* `value` for the processValue holding `values`.
NotEvaluated == [done |-> FALSE]
Evaluated(values, value) == [done |-> TRUE, values |-> values, value |-> value]
\* printed before toString() has been called, after it returned `text`, and
\* after it threw.
NotPrinted == [done |-> FALSE]
Printed(text) == [done |-> TRUE, threw |-> FALSE, text |-> text]
ToStringThrew == [done |-> TRUE, threw |-> TRUE]
\* hasFunctionResult before hasFunction() has been called, and after it
\* returned `value`.
NotAsked == [done |-> FALSE]
Asked(value) == [done |-> TRUE, value |-> value]
\* ctorArgs before a constructor has been called.
NoCtorArgs == [class |-> "none"]
\* validator before a constructor has been called; validated and runnerRun
\* before a call.
NoValidator == [type |-> "none"]
NotValidated == [done |-> FALSE]
NotRun == [done |-> FALSE]

\* ---------------------------------------------------------------------------
\* Names and the survey definition used by the model
\* ---------------------------------------------------------------------------
q1 == <<"q","1">>
q2 == <<"q","2">>
q3 == <<"q","3">>
qh == <<"q","h">>
v1 == <<"v","1">>
NoName == <<>>
q3a == <<"q","3",".","a">>
q3i == <<"q","3","[","0","]">>
ConditionVersionKey ==
  <<"c","o","n","d","i","t","i","o","n","V","e","r","s","i","o","n">>

\* Three visible pages.  Page 1 holds q1 and the invisible qh, page 2 holds
\* q2 (required) and a question without a name, page 3 holds q3.
Question(name, visible, isRequired) ==
  [name |-> name, visible |-> visible, isRequired |-> isRequired]
Pages ==
  << <<Question(q1, TRUE, FALSE), Question(qh, FALSE, FALSE)>>,
     <<Question(q2, TRUE, TRUE), Question(NoName, TRUE, FALSE)>>,
     <<Question(q3, TRUE, FALSE)>> >>
QuestionNames == {q1, q2, q3, qh}

\* ---------------------------------------------------------------------------
\* SurveyModel: the survey as a record, and its methods as operators on it
\* ---------------------------------------------------------------------------
\* The survey object at the start of a public call.  ret holds what the last
\* method returned; frames and level are the call's own bookkeeping: the
\* active setValue calls and the number of active checkTriggers calls.
Self ==
  [vals |-> valuesHash, vars |-> variablesHash, ver |-> conditionVersion,
   completed |-> isCompleted, page |-> currentPageValue,
   errs |-> questionErrors, validating |-> isValidatingOnServer,
   options |-> serverOptions, nComplete |-> onCompleteCount,
   sinceClear |-> onCompleteSinceClear,
   cookie |-> documentCookie, timer |-> isTimerStarted,
   loading |-> isLoading, completedBefore |-> isCompletedBefore,
   startedState |-> isStartedState, time |-> timeSpent,
   pageTime |-> pageTimeSpent,
   snaps |-> snapshotLog, trace |-> <<>>, thrown |-> FALSE, cycle |-> FALSE,
   frames |-> <<>>, level |-> 0, ret |-> Undefined]

Log(s, e) == [s EXCEPT !.trace = Append(@, e)]
Return(s, value) == [s EXCEPT !.ret = value]

\* A dictionary with one more key.
Put(f, k, v) == [x \in (DOMAIN f) \cup {k} |-> IF x = k THEN v ELSE f[x]]
\* A dictionary without a key.
Del(f, k) == [x \in (DOMAIN f) \ {k} |-> f[x]]
EmptyHash == << >>

\* getValue(name)
GetValue(s, name) ==
  IF name = <<>> THEN Null
  ELSE IF name \in DOMAIN s.vals THEN s.vals[name] ELSE Undefined

\* getVariable(name)
GetVariable(s, name) ==
  IF name = <<>> THEN Null
  ELSE IF ToLowerCase(name) \in DOMAIN s.vars THEN s.vars[ToLowerCase(name)]
  ELSE Undefined
\* get data(): the keys of the value store whose value is not undefined.
Data(s) ==
  [k \in {x \in DOMAIN s.vals : s.vals[x] # Undefined} |-> s.vals[k]]

\* The snapshot getFilteredValues builds: the variables, overlaid by the
\* values, with conditionVersion set to the given version.
FilteredValues(s, version) ==
  [k \in (DOMAIN s.vars) \cup (DOMAIN s.vals) \cup {ConditionVersionKey} |->
     IF k = ConditionVersionKey THEN Num(version)
     ELSE IF k \in DOMAIN s.vals THEN s.vals[k] ELSE s.vars[k]]
\* getFilteredValues() with the counter read but not incremented.
GetFilteredValuesSameVersion(s) ==
  Log([s EXCEPT !.snaps = Append(@, s.ver), !.ret = FilteredValues(s, s.ver)],
      [e |-> "snapshot", version |-> s.ver])
\* getFilteredValues(): the counter is incremented and the snapshot returned.
GetFilteredValues(s) ==
  Log([s EXCEPT !.ver = @ + 1, !.snaps = Append(@, s.ver + 1),
                !.ret = FilteredValues(s, s.ver + 1)],
      [e |-> "snapshot", version |-> s.ver + 1])

\* The survey is in edit mode; it is in design mode.
IsEditMode == mode = "edit"
IsDesignMode == isDesignMode
\* isPageStarted(page)
IsPageStarted(page) == firstPageIsStarted /\ Len(pages) > 0 /\ page = 1
\* get startedPage, 0 for null
StartedPage == IF firstPageIsStarted /\ Len(pages) > 0 THEN 1 ELSE 0
\* get visiblePages, as page indices: in design mode every page, otherwise
\* the pages that are visible, which the started page is not.
VisiblePages ==
  SelectSeq([i \in 1..Len(pages) |-> i],
            LAMBDA i : IsDesignMode \/ ~IsPageStarted(i))
\* visiblePages.indexOf(page) + 1: 0 when the page is not among them.
VisibleIndexOf(page) ==
  IF \E i \in 1..Len(VisiblePages) : VisiblePages[i] = page
  THEN CHOOSE i \in 1..Len(VisiblePages) : VisiblePages[i] = page
  ELSE 0
\* get currentPage: a page that is not visible becomes null, null becomes
\* the first visible page if there is one.
CurrentPage(s) ==
  IF VisibleIndexOf(s.page) # 0 THEN s.page
  ELSE IF Len(VisiblePages) > 0 THEN VisiblePages[1]
  ELSE 0
\* set currentPage(value), value an index into visiblePages or out of range
\* (undefined).
SetCurrentPage(s, value) ==
  IF value \in 1..Len(VisiblePages)
  THEN [s EXCEPT !.page = VisiblePages[value]]
  ELSE [s EXCEPT !.page = 0]
\* get isLastPage
IsLastPage(s) ==
  CurrentPage(s) = 0 \/ VisibleIndexOf(CurrentPage(s)) = Len(VisiblePages)
\* get isFirstPage
IsFirstPage(s) == CurrentPage(s) = 0 \/ VisibleIndexOf(CurrentPage(s)) = 1

\* getCurrentPageQuestions(): the visible, named questions of the page.
GetCurrentPageQuestions(s) ==
  SelectSeq(pages[CurrentPage(s)], LAMBDA q : q.visible /\ q.name # <<>>)

\* runConditions()
RunConditions(s) ==
  IF s.thrown \/ s.completed THEN s
  ELSE Log(GetFilteredValues(s), [e |-> "runConditions"])

\* setCompleted()
SetCompleted(s) == Log([s EXCEPT !.completed = TRUE], [e |-> "setCompleted"])

\* isValueEqual(name, newValue): "" and undefined count as null on both
\* sides.
NullIfEmpty(v) == IF v = EmptyStr \/ v = Undefined THEN Null ELSE v
IsValueEqualNormalized(newValue, oldValue) ==
  IF newValue = Null \/ oldValue = Null THEN newValue = oldValue
  ELSE IsTwoValueEquals(newValue, oldValue)
IsValueEqual(s, name, newValue) ==
  IsValueEqualNormalized(NullIfEmpty(newValue), NullIfEmpty(GetValue(s, name)))

\* setVariable(name, newValue)
\* setVariable writing the variable into the value store as well.
SetVariableAlsoStored(s, name, newValue) ==
  IF s.thrown \/ name = <<>> THEN s
  ELSE RunConditions(
         Log([s EXCEPT !.vars = Put(@, ToLowerCase(name), newValue),
                       !.vals = Put(@, ToLowerCase(name), newValue)],
             [e |-> "setVariable", name |-> ToLowerCase(name)]))
SetVariable(s, name, newValue) ==
  IF s.thrown \/ name = <<>> THEN s
  ELSE RunConditions(
         Log([s EXCEPT !.vars = Put(@, ToLowerCase(name), newValue)],
             [e |-> "setVariable", name |-> ToLowerCase(name)]))

\* notifyQuestionOnValueChanged(valueName, newValue): onValueChanged fires.
NotifyQuestionOnValueChanged(s, name, newValue) ==
  IF s.thrown THEN s
  ELSE Log(s, [e |-> "onValueChanged", name |-> name, value |-> newValue])

\* goNextPageAutomatic is false (its default): tryGoNextPageAutomatic returns.
TryGoNextPageAutomatic(s, name) == s

\* The trigger classes (trigger.ts).  A trigger holds a condition, a scope
\* and an action: set a value or a variable, copy a value, or complete.
SetValueTrigger(expression, setToName, setValue, isVariable, isOnNextPage) ==
  [kind |-> "setvalue", expression |-> expression, setToName |-> setToName,
   setValue |-> setValue, isVariable |-> isVariable,
   isOnNextPage |-> isOnNextPage]
CopyValueTrigger(expression, setToName, fromName, isOnNextPage) ==
  [kind |-> "copyvalue", expression |-> expression, setToName |-> setToName,
   fromName |-> fromName, isOnNextPage |-> isOnNextPage]
CompleteTrigger(expression, isOnNextPage) ==
  [kind |-> "complete", expression |-> expression, isOnNextPage |-> isOnNextPage]

RECURSIVE SetValue(_, _, _, _, _)
RECURSIVE AfterStore(_, _, _, _, _, _)
RECURSIVE CheckTriggers(_, _, _, _)
RECURSIVE RunTriggers(_, _, _, _)
RECURSIVE CheckTriggersLoop(_, _, _, _, _, _)
RECURSIVE CheckExpression(_, _, _, _, _)
RECURSIVE Perform(_, _, _, _)
RECURSIVE OnSuccess(_, _, _)
RECURSIVE SetTriggerValue(_, _, _, _, _)
RECURSIVE SetNestedValue(_, _, _, _, _)
RECURSIVE CopyTriggerValue(_, _, _, _)
RECURSIVE CopyFromSnapshot(_, _, _, _)

\* No onValueChanging handler is registered: questionOnValueChanging returns
\* the value it is given.
QuestionOnValueChanging(name, newValue) == newValue

\* The frame of a setValue call: what it writes and the state it writes to.
Frame(s, name, locNotification) ==
  [name |-> name, vals |-> s.vals, vars |-> s.vars, completed |-> s.completed,
   loc |-> locNotification]
\* The call enters the stack of active setValue calls; an equal frame still
\* active below it means the call repeats without end.
PushFrame(s, frame) ==
  [s EXCEPT !.frames = Append(@, frame),
            !.cycle = @ \/ \E i \in 1..Len(s.frames) : s.frames[i] = frame]
\* The write of setValue into the store: an empty value removes the key.
Stored(s, name, newValue) ==
  [s EXCEPT !.vals = IF IsValueEmpty(newValue) THEN Del(@, name)
                     ELSE Put(@, name, newValue)]
StoreValue(s, name, newValue, locNotification, depth) ==
  Log(PushFrame(Stored(s, name, newValue),
                Frame(Stored(s, name, newValue), name, locNotification)),
      [e |-> "store", name |-> name, value |-> newValue, depth |-> depth,
       vals |-> Stored(s, name, newValue).vals])

\* setValue(name, newQuestionValue, locNotification), at nesting depth
\* `depth` of setValue calls.
SetValue(s, name, newQuestionValue, locNotification, depth) ==
  IF s.thrown THEN s
  ELSE IF depth > MaxCallDepth THEN [s EXCEPT !.thrown = TRUE]
  ELSE IF IsValueEqual(s, name, QuestionOnValueChanging(name, newQuestionValue))
            /\ IsTwoValueEquals(QuestionOnValueChanging(name, newQuestionValue),
                                newQuestionValue)
  THEN s
  ELSE AfterStore(StoreValue(s, name,
                             QuestionOnValueChanging(name, newQuestionValue),
                             locNotification, depth),
                  name, QuestionOnValueChanging(name, newQuestionValue),
                  locNotification, depth, s.frames)

\* setValue ending after the write whatever locNotification is.
AfterStoreSilent(s, name, newValue, locNotification, depth, frames) ==
  [s EXCEPT !.frames = frames]
\* What setValue does after the write; at its end the call leaves the stack
\* of active calls.
AfterStore(s, name, newValue, locNotification, depth, frames) ==
  IF locNotification THEN [s EXCEPT !.frames = frames]
  ELSE [TryGoNextPageAutomatic(
          NotifyQuestionOnValueChanged(
            RunConditions(
              CheckTriggers(s, [k \in {name} |-> newValue], FALSE, depth)),
            name, newValue),
          name) EXCEPT !.frames = frames]

\* checkTriggers(key, isOnNextPage)
CheckTriggers(s, key, isOnNextPage, depth) ==
  IF s.thrown THEN s
  ELSE IF s.completed \/ Len(triggers) = 0 THEN s
  ELSE [RunTriggers(
          GetFilteredValues(
            Log([s EXCEPT !.level = @ + 1],
                [e |-> "checkTriggers", isOnNextPage |-> isOnNextPage,
                 key |-> key, level |-> s.level + 1, page |-> CurrentPage(s),
                 vals |-> s.vals])),
          key, isOnNextPage, depth)
        EXCEPT !.level = s.level]

\* The loop of checkTriggers over the snapshot getFilteredValues returned.
RunTriggers(s, key, isOnNextPage, depth) ==
  CheckTriggersLoop(s, 1, key, s.ret, isOnNextPage, depth)

\* The loop of checkTriggers without the test of the trigger's scope.
CheckTriggersLoopAnyScope(s, i, key, values, isOnNextPage, depth) ==
  IF s.thrown \/ i > Len(triggers) THEN s
  ELSE CheckTriggersLoop(CheckExpression(s, i, key, values, depth),
                         i + 1, key, values, isOnNextPage, depth)
CheckTriggersLoop(s, i, key, values, isOnNextPage, depth) ==
  IF s.thrown \/ i > Len(triggers) THEN s
  ELSE CheckTriggersLoop(
         IF triggers[i].isOnNextPage = isOnNextPage
         THEN CheckExpression(s, i, key, values, depth) ELSE s,
         i + 1, key, values, isOnNextPage, depth)

\* SurveyTrigger.checkExpression(key, values, properties) of trigger i: the
\* condition is evaluated against the snapshot; when it is true the action
\* runs at once, when it is false nothing happens.
CheckExpression(s, i, key, values, depth) ==
  Perform(s, i, RunCondition(triggers[i].expression, values), depth)

Perform(s, i, result, depth) ==
  IF result
  THEN OnSuccess(Log(Log(s, [e |-> "checkExpression", trigger |-> i,
                             result |-> result, level |-> s.level,
                             completed |-> s.completed]),
                     [e |-> "action", trigger |-> i, level |-> s.level,
                      completed |-> s.completed]),
                 i, depth)
  ELSE Log(s, [e |-> "checkExpression", trigger |-> i, result |-> result,
               level |-> s.level, completed |-> s.completed])

\* The action of trigger i.
OnSuccess(s, i, depth) ==
  CASE triggers[i].kind = "setvalue" ->
         SetTriggerValue(s, triggers[i].setToName, triggers[i].setValue,
                         triggers[i].isVariable, depth)
    [] triggers[i].kind = "copyvalue" ->
         CopyTriggerValue(s, triggers[i].setToName, triggers[i].fromName, depth)
    [] triggers[i].kind = "complete" -> SetCompleted(s)

\* setTriggerValue without the test that the leading name has a value.
SetTriggerValueUnguarded(s, name, value, isVariable, depth) ==
  IF s.thrown \/ name = <<>> THEN s
  ELSE IF isVariable THEN SetVariable(s, name, value)
  ELSE IF GetFirstName(name) = name
  THEN SetValue(s, name, value, FALSE, depth + 1)
  ELSE SetNestedValue(GetFilteredValues(s), GetFirstName(name), name, value,
                      depth)
\* setTriggerValue(name, value, isVariable)
SetTriggerValue(s, name, value, isVariable, depth) ==
  IF s.thrown \/ name = <<>> THEN s
  ELSE IF isVariable THEN SetVariable(s, name, value)
  ELSE IF GetFirstName(name) = name
  THEN SetValue(s, name, value, FALSE, depth + 1)
  ELSE IF ~Truthy(GetValue(s, GetFirstName(name))) THEN s
  ELSE SetNestedValue(GetFilteredValues(s), GetFirstName(name), name, value,
                      depth)

\* The write of setTriggerValue to a path below firstName: the value is
\* written into the snapshot getFilteredValues returned, and what the
\* snapshot then holds under firstName is stored.
DataValue(data, key) == IF key \in DOMAIN data THEN data[key] ELSE Undefined
SetNestedValue(s, firstName, name, value, depth) ==
  SetValue(s, firstName, DataValue(PVSetValue(s.ret, name, value), firstName),
           FALSE, depth + 1)

\* copyTriggerValue(name, fromName)
CopyTriggerValue(s, name, fromName, depth) ==
  IF s.thrown \/ name = <<>> \/ fromName = <<>> THEN s
  ELSE CopyFromSnapshot(GetFilteredValues(s), name, fromName, depth)

\* The value read from the snapshot getFilteredValues returned is written.
CopyFromSnapshot(s, name, fromName, depth) ==
  SetTriggerValue(s, name, PVGetValue(s.ret, fromName), FALSE, depth)

\* PageModel.hasErrors(true) on the current page: each visible question of
\* the page gets its errors recomputed (a required question that is empty
\* holds one error); true when a question of the page holds an error.
NamesOnPage(page) == {pages[page][i].name : i \in 1..Len(pages[page])} \ {<<>>}
RequiredAndEmpty(s, page) ==
  {q.name : q \in {pages[page][i] : i \in
                     {j \in 1..Len(pages[page]) :
                        /\ pages[page][j].visible
                        /\ pages[page][j].isRequired
                        /\ IsValueEmpty(GetValue(s, pages[page][j].name))}}}
PageHasErrors(s, page) ==
  Log([s EXCEPT !.errs = [q \in QuestionNames |->
                            IF q \in RequiredAndEmpty(s, page) THEN 1
                            ELSE IF q \in NamesOnPage(page) THEN 0 ELSE @[q]],
                !.ret = Bool(RequiredAndEmpty(s, page) # {})],
      [e |-> "hasErrors", page |-> page])
\* get isCurrentPageHasErrors
IsCurrentPageHasErrors(s) == PageHasErrors(s, CurrentPage(s))


\* stopTimer()
StopTimer(s) == IF ~s.timer THEN s ELSE [s EXCEPT !.timer = FALSE]
\* setCookie()
SetCookie(s) == IF cookieName = "" THEN s ELSE [s EXCEPT !.cookie = TRUE]
\* Question.clearValueIfInvisible() of every question: a question that is
\* not visible gives up its value.
AllQuestions ==
  UNION {{pages[p][i] : i \in 1..Len(pages[p])} : p \in 1..Len(pages)}
InvisibleNames == {q.name : q \in {x \in AllQuestions : ~x.visible}}
RECURSIVE WithoutKeys(_, _)
WithoutKeys(f, keys) ==
  IF keys = {} THEN f
  ELSE LET k == CHOOSE x \in keys : TRUE IN WithoutKeys(Del(f, k), keys \ {k})
ClearInvisibleQuestionValues(s) ==
  [s EXCEPT !.vals = WithoutKeys(@, InvisibleNames)]
\* clearUnusedValues()
ClearUnusedValues(s) ==
  IF clearInvisibleValues # "none" THEN ClearInvisibleQuestionValues(s) ELSE s

\* doComplete(): onCompleting fires; unless a handler has reset
\* options.allowComplete the timer stops, the survey is completed, the
\* unused values are cleared, the cookie is set and onComplete fires.
FireOnComplete(s) ==
  Log([s EXCEPT !.nComplete = @ + 1, !.sinceClear = @ + 1],
      [e |-> "onComplete", completed |-> s.completed, vals |-> s.vals])
FireOnCompleting(s) ==
  Log(s, [e |-> "onCompleting", completed |-> s.completed, vals |-> s.vals])
\* The steps after the veto test, with onComplete fired ahead of them.
CompleteAllowedFiringFirst(s) ==
  SetCookie(ClearUnusedValues(SetCompleted(StopTimer(FireOnComplete(s)))))
CompleteAllowed(s) ==
  FireOnComplete(SetCookie(ClearUnusedValues(SetCompleted(StopTimer(s)))))
DoComplete(s) ==
  IF s.thrown THEN s
  ELSE IF ~allowComplete THEN FireOnCompleting(s)
  ELSE CompleteAllowed(FireOnCompleting(s))

\* startTimer()
StartTimer(s) ==
  IF s.timer \/ IsDesignMode THEN s ELSE [s EXCEPT !.timer = TRUE]

\* checkOnPageTriggers()
CheckOnPageTriggers(s) ==
  CheckTriggers(s,
                [n \in {GetCurrentPageQuestions(s)[i].name :
                          i \in 1..Len(GetCurrentPageQuestions(s))} |->
                   GetValue(s, n)],
                TRUE, 0)

\* doNextPage() without the test of the completed flag.
AfterOnPageTriggersAlwaysAdvancing(s) ==
  IF s.thrown THEN s
  ELSE Log(SetCurrentPage(s, VisibleIndexOf(CurrentPage(s)) + 1),
           [e |-> "currentPage", page |-> VisibleIndexOf(CurrentPage(s)) + 1])
\* doNextPage()
AfterOnPageTriggers(s) ==
  IF s.thrown THEN s
  ELSE IF ~s.completed
  THEN Log(SetCurrentPage(s, VisibleIndexOf(CurrentPage(s)) + 1),
           [e |-> "currentPage", page |-> VisibleIndexOf(CurrentPage(s)) + 1])
  ELSE DoComplete(s)
DoNextPage(s) == AfterOnPageTriggers(CheckOnPageTriggers(s))

\* completeServerValidation(options), options the i-th object created by
\* doServerValidation, holding the errors its handler has set.
AddServerErrors(s, i) ==
  Log([s EXCEPT !.validating = FALSE,
                !.options[i].completions = @ + 1,
                !.errs = [q \in QuestionNames |->
                            IF q \in s.options[i].errors THEN @[q] + 1
                            ELSE @[q]]],
      [e |-> "completeServerValidation", options |-> i])
CompleteServerValidation(s, i) ==
  IF s.options[i].errors # {} THEN AddServerErrors(s, i)
  ELSE IF IsLastPage(s) THEN DoComplete(AddServerErrors(s, i))
  ELSE DoNextPage(AddServerErrors(s, i))

\* doServerValidation(): false without a handler; otherwise a new options
\* object is handed to the handler.  The handler may set options.errors and
\* call options.complete() before it returns (sync), or keep the object.
NewOptions(s, errors) ==
  Log([s EXCEPT !.options = Append(@, [errors |-> errors, completions |-> 0]),
                !.validating = TRUE],
      [e |-> "onServerValidateQuestions"])
DoServerValidation(s, sync, errors) ==
  IF ~hasServerValidation THEN Return(s, Bool(FALSE))
  ELSE IF sync
  THEN Return(CompleteServerValidation(NewOptions(s, errors),
                                       Len(s.options) + 1),
              Bool(TRUE))
  ELSE Return(NewOptions(s, {}), Bool(TRUE))

\* nextPage()
NextPageValidated(s) ==
  IF s.ret.b THEN Return(s, Bool(FALSE))
  ELSE Return(DoNextPage(s), Bool(TRUE))
NextPageChecked(s, sync, errors) ==
  IF IsEditMode /\ s.ret.b THEN Return(s, Bool(FALSE))
  ELSE NextPageValidated(DoServerValidation(s, sync, errors))
NextPage(s, sync, errors) ==
  IF IsLastPage(s) THEN Return(s, Bool(FALSE))
  ELSE NextPageChecked(IsCurrentPageHasErrors(s), sync, errors)

\* completeLastPage()
CompleteLastPageValidated(s) ==
  IF s.ret.b THEN Return(s, Bool(FALSE))
  ELSE Return(DoComplete(s), Bool(TRUE))
\* completeLastPage() without the test of the page's errors.
CompleteLastPageUnchecked(s, sync, errors) ==
  CompleteLastPageValidated(DoServerValidation(s, sync, errors))
CompleteLastPageChecked(s, sync, errors) ==
  IF IsEditMode /\ s.ret.b THEN Return(s, Bool(FALSE))
  ELSE CompleteLastPageValidated(DoServerValidation(s, sync, errors))
CompleteLastPage(s, sync, errors) ==
  CompleteLastPageChecked(IsCurrentPageHasErrors(s), sync, errors)

\* getPageMaxTimeToFinish(page), page an index into pages or 0 for null.
GetPageMaxTimeToFinish(page) ==
  IF page = 0 \/ pageMaxTimeToFinish[page] < 0 THEN 0
  ELSE IF pageMaxTimeToFinish[page] > 0 THEN pageMaxTimeToFinish[page]
  ELSE maxTimeToFinishPage
\* doTimer(): the current page is read once, at the start of the tick; sync
\* and errors tell what a server validation handler does when it is fired.
Ticked(s) ==
  Log([s EXCEPT !.time = @ + 1,
                !.pageTime = IF CurrentPage(s) # 0
                             THEN [@ EXCEPT ![CurrentPage(s)] = @ + 1]
                             ELSE @],
      [e |-> "onTimer", page |-> CurrentPage(s)])
SurveyLimitChecked(s, sync, errors) ==
  IF maxTimeToFinish > 0 /\ maxTimeToFinish = s.time
  THEN CompleteLastPage(Log(s, [e |-> "completeLastPage", limit |-> "survey"]),
                        sync, errors)
  ELSE s
PageLimitChecked(s, page, sync, errors) ==
  IF page = 0 THEN s
  ELSE IF GetPageMaxTimeToFinish(page) > 0
          /\ GetPageMaxTimeToFinish(page) = s.pageTime[page]
  THEN IF IsLastPage(s)
       THEN CompleteLastPage(
              Log(s, [e |-> "completeLastPage", limit |-> "page"]),
              sync, errors)
       ELSE NextPage(Log(s, [e |-> "nextPage", limit |-> "page"]),
                     sync, errors)
  ELSE s
DoTimer(s, sync, errors) ==
  PageLimitChecked(SurveyLimitChecked(Ticked(s), sync, errors),
                   CurrentPage(s), sync, errors)

\* prevPage(): false on the first page; otherwise the page changes and the
\* method ends without a return statement.
PrevPage(s) ==
  IF IsFirstPage(s) THEN Return(s, Bool(FALSE))
  ELSE Return(SetCurrentPage(s, VisibleIndexOf(CurrentPage(s)) - 1),
              Undefined)

\* set data(data): the store is replaced, then the onValueChange triggers
\* are checked with the whole store as the key, then the conditions run.
SetData(s, data) ==
  RunConditions(CheckTriggers(Log([s EXCEPT !.vals = data], [e |-> "data"]),
                              data, FALSE, 0))

\* get state, without the test of the started page.
StateWithoutStarting(s) ==
  IF s.loading THEN "loading"
  ELSE IF s.completed THEN "completed"
  ELSE IF s.completedBefore THEN "completedbefore"
  ELSE IF CurrentPage(s) # 0 THEN "running" ELSE "empty"
\* get state
State(s) ==
  IF s.loading THEN "loading"
  ELSE IF s.completed THEN "completed"
  ELSE IF s.completedBefore THEN "completedbefore"
  ELSE IF ~IsDesignMode /\ IsEditMode /\ s.startedState /\ StartedPage # 0
  THEN "starting"
  ELSE IF CurrentPage(s) # 0 THEN "running" ELSE "empty"

\* start(): the timer panel is not shown, so startTimerFromUI does nothing.
Start(s) ==
  IF ~firstPageIsStarted THEN s
  ELSE Log([s EXCEPT !.startedState = FALSE], [e |-> "onStarted"])

\* get hasCookie
HasCookie(s) == cookieName # "" /\ s.cookie
\* endLoadingFromJson()
EndLoadingFromJson(s) ==
  RunConditions(IF HasCookie(s)
                THEN DoComplete([s EXCEPT !.startedState = firstPageIsStarted])
                ELSE [s EXCEPT !.startedState = firstPageIsStarted])
\* setJsonObject(json), json the definition the survey was created from:
\* the pages are built anew, so the page that was current is none of them.
SetJsonObject(s) == EndLoadingFromJson([s EXCEPT !.page = 0])
\* loadSurveyFromServiceJson(json), hasJson: json is not null
LoadSurveyFromServiceJson(s, hasJson) ==
  IF ~hasJson THEN s ELSE SetJsonObject(s)
\* loadSurveyFromService(surveyId, clientId), both given: the request is sent.
LoadSurveyFromService(s) ==
  Log([s EXCEPT !.loading = TRUE], [e |-> "getSurveyJsonAndIsCompleted"])
\* The callback loadSurveyFromService hands to the service.
ServiceResponded(s, success, completed, hasJson) ==
  IF ~success THEN [s EXCEPT !.loading = FALSE]
  ELSE LoadSurveyFromServiceJson(
         [s EXCEPT !.loading = FALSE,
                   !.completedBefore = (completed = "completed")],
         hasJson)

\* clear(): timeSpent of the survey and of every page back to 0.
ResetTimeSpent(s) ==
  [s EXCEPT !.time = 0, !.pageTime = [p \in DOMAIN @ |-> 0]]

\* clear(clearData, gotoFirstPage) after the data: without the reset of the
\* completed flag.
ResetStateStillCompleted(s, gotoFirstPage) ==
  IF s.thrown THEN s
  ELSE IF gotoFirstPage /\ Len(VisiblePages) > 0
  THEN SetCurrentPage(Log([ResetTimeSpent(s)
                             EXCEPT !.completedBefore = FALSE,
                                    !.loading = FALSE,
                                    !.startedState = firstPageIsStarted],
                          [e |-> "clear"]), 1)
  ELSE Log([ResetTimeSpent(s)
              EXCEPT !.completedBefore = FALSE, !.loading = FALSE,
                     !.startedState = firstPageIsStarted],
           [e |-> "clear"])
\* clear(clearData, gotoFirstPage)
ResetState(s, gotoFirstPage) ==
  IF s.thrown THEN s
  ELSE IF gotoFirstPage /\ Len(VisiblePages) > 0
  THEN SetCurrentPage(Log([ResetTimeSpent(s)
                             EXCEPT !.completed = FALSE,
                                    !.completedBefore = FALSE,
                                    !.loading = FALSE,
                                    !.startedState = firstPageIsStarted],
                          [e |-> "clear"]), 1)
  ELSE Log([ResetTimeSpent(s)
              EXCEPT !.completed = FALSE, !.completedBefore = FALSE,
                     !.loading = FALSE, !.startedState = firstPageIsStarted],
           [e |-> "clear"])
ClearVariables(s) == IF s.thrown THEN s ELSE [s EXCEPT !.vars = EmptyHash]
ClearCalled(s) ==
  Log([s EXCEPT !.sinceClear = 0],
      [e |-> "clearing", was |-> State(s), vals |-> s.vals, page |-> s.page])
Clear(s, clearData, gotoFirstPage) ==
  ResetState(IF clearData
             THEN ClearVariables(SetData(ClearCalled(s), EmptyHash))
             ELSE ClearCalled(s),
             gotoFirstPage)

\* runExpression(expression) / runCondition(expression): a snapshot is built
\* and the expression evaluated against it.
EvaluateOnSnapshot(s, expression) ==
  Log(Return(s, Evaluate(expression, s.ret)), [e |-> "runExpression"])
RunExpression(s, expression) ==
  EvaluateOnSnapshot(GetFilteredValues(s), expression)

\* ---------------------------------------------------------------------------
\* The question hashes
\* ---------------------------------------------------------------------------
\* A question object: id tells two questions of the same name apart.
QuestionObject(id, name, valueName) ==
  [id |-> id, name |-> name, valueName |-> valueName]
\* Question.getValueName(): the valueName when it is set, the name otherwise.
GetValueName(question) ==
  IF question.valueName # <<>> THEN question.valueName ELSE question.name
NoQuestionHashes ==
  [names |-> EmptyHash, namesInsensitive |-> EmptyHash,
   valueNames |-> EmptyHash, valueNamesInsensitive |-> EmptyHash]
\* questionHashAddedCore(hash, question, name)
QuestionHashAddedCore(hash, question, name) ==
  IF name \in DOMAIN hash
  THEN IF \E i \in 1..Len(hash[name]) : hash[name][i] = question
       THEN hash
       ELSE Put(hash, name, Append(hash[name], question))
  ELSE Put(hash, name, <<question>>)
\* questionHashesAdded(question)
QuestionHashesAdded(hashes, question) ==
  [names |->
     QuestionHashAddedCore(hashes.names, question, question.name),
   namesInsensitive |->
     QuestionHashAddedCore(hashes.namesInsensitive, question,
                           ToLowerCase(question.name)),
   valueNames |->
     QuestionHashAddedCore(hashes.valueNames, question,
                           GetValueName(question)),
   valueNamesInsensitive |->
     QuestionHashAddedCore(hashes.valueNamesInsensitive, question,
                           ToLowerCase(GetValueName(question)))]
\* The hashes after the questions of a list were added one by one.
RECURSIVE HashesOf(_)
HashesOf(list) ==
  IF list = <<>> THEN NoQuestionHashes
  ELSE QuestionHashesAdded(HashesOf(SubSeq(list, 1, Len(list) - 1)),
                           list[Len(list)])
\* The named questions of the pages, page by page, as question objects.
RECURSIVE NamesOfPages(_)
NamesOfPages(p) ==
  IF p = 0 THEN <<>>
  ELSE NamesOfPages(p - 1)
       \o [i \in 1..Len(SelectSeq(pages[p], LAMBDA q : q.name # <<>>)) |->
            SelectSeq(pages[p], LAMBDA q : q.name # <<>>)[i].name]
QuestionsOfPages ==
  [i \in 1..Len(NamesOfPages(Len(pages))) |->
     QuestionObject(i, NamesOfPages(Len(pages))[i], <<>>)]
\* getQuestionByName(name, caseInsensitive): NoQuestion stands for null.
NoQuestion == [id |-> 0]
GetQuestionByName(hashes, name, caseInsensitive) ==
  LET hash == IF caseInsensitive THEN hashes.namesInsensitive
              ELSE hashes.names
  IN IF name \notin DOMAIN hash THEN NoQuestion ELSE hash[name][1]
\* getQuestionsByValueNameCore(valueName, caseInsensitive): <<>> stands for
\* null, no array of a hash is empty.
GetQuestionsByValueNameCore(hashes, valueName, caseInsensitive) ==
  LET hash == IF caseInsensitive THEN hashes.valueNamesInsensitive
              ELSE hashes.valueNames
  IN IF valueName \notin DOMAIN hash THEN <<>> ELSE hash[valueName]
\* getQuestionByValueName(valueName, caseInsensitive)
GetQuestionByValueName(hashes, valueName, caseInsensitive) ==
  LET res == GetQuestionsByValueNameCore(hashes, valueName, caseInsensitive)
  IN IF res # <<>> THEN res[1] ELSE NoQuestion
\* found before any lookup, and after one.
NotLooked == [done |-> FALSE]
Looked(method, name, caseInsensitive, question) ==
  [done |-> TRUE, method |-> method, name |-> name,
   caseInsensitive |-> caseInsensitive, question |-> question]

\* ---------------------------------------------------------------------------
\* The surveys and inputs of the model
\* ---------------------------------------------------------------------------
Greater(name, n) == BinaryOperand("greater", Variable(name), Const(Num(n)), FALSE)
Equal(name, n) == BinaryOperand("equal", Variable(name), Const(Num(n)), FALSE)

\* On page advance: complete when {q1} == 1, then set q3; set q2 when
\* {q1} == 2.  On a value change: set q3 when {q2} == 2.
PageAdvanceTriggers ==
  << CompleteTrigger(Equal(q1, 1), TRUE),
     SetValueTrigger(Equal(q1, 1), q3, Num(1), FALSE, TRUE),
     SetValueTrigger(Equal(q1, 2), q2, Num(2), FALSE, TRUE),
     SetValueTrigger(Equal(q2, 2), q3, Num(2), FALSE, FALSE) >>

\* The trigger lists a survey of the model is loaded with.
TriggerConfigs ==
  { <<>>,
    \* one onValueChange trigger: {q1} > 3 sets q2 to 1
    << SetValueTrigger(Greater(q1, 3), q2, Num(1), FALSE, FALSE) >>,
    \* a chain: {q1} > 3 sets q2 to 1, {q2} == 1 sets q3 to 1
    << SetValueTrigger(Greater(q1, 3), q2, Num(1), FALSE, FALSE),
       SetValueTrigger(Equal(q2, 1), q3, Num(1), FALSE, FALSE) >>,
    \* two triggers that write the variable of each other's condition
    << SetValueTrigger(Equal(q1, 1), q1, Num(2), FALSE, FALSE),
       SetValueTrigger(Equal(q1, 2), q1, Num(1), FALSE, FALSE) >>,
    PageAdvanceTriggers,
    \* writes to a nested path, to a variable, and a copy
    << SetValueTrigger(Equal(q1, 2), q3a, Num(1), FALSE, FALSE),
       SetValueTrigger(Equal(q1, 2), v1, Num(1), TRUE, FALSE),
       CopyValueTrigger(Equal(q1, 5), q2, q1, FALSE) >> }

\* The writes a caller makes through setValue: name, value, locNotification.
SetValueInputs == {q1} \X {Null, Num(1), Num(2), Num(5)} \X BOOLEAN
\* The writes a caller makes through setVariable.
SetVariableInputs == {<<v1, Num(1)>>, <<<<"V","1">>, Num(2)>>, <<NoName, Num(1)>>}
\* The arguments given to setTriggerValue: name, value, isVariable.
q1a == <<"q","1",".","a">>
SetTriggerValueInputs ==
  ({NoName, q3a, q3i, q1a} \X {Num(1)} \X {FALSE})
    \cup ({NoName, q3a} \X {Num(1)} \X {TRUE})
\* The arguments given to copyTriggerValue: name, fromName.
CopyTriggerValueInputs == {<<NoName, q1>>, <<q3, NoName>>, <<q3, q1>>}
\* The expressions given to runExpression and runCondition.
ExpressionInputs ==
  {Greater(q1, 3), BinaryOperand("plus", Variable(q1), Const(Num(1)), TRUE)}
\* The stores assigned to the data property.
InputData == {[k \in {q1} |-> Num(5)], [k \in {q1, q3} |-> Num(1)]}
\* The error sets a server validation handler reports.
ServerErrors == {{}, {q1}}
\* What a server validation handler does inside the event: whether it calls
\* options.complete() before returning, and the errors it has set by then.
HandlerInputs ==
  IF hasServerValidation THEN BOOLEAN \X ServerErrors ELSE {<<FALSE, {}>>}

\* The operator names handed to the operand constructors: registry names
\* and names the registry does not hold.
BinaryNameInputs == ArithmeticNames \cup {"greater", "foo"}
UnaryNameInputs == {"empty", "notempty", "negate", "foo"}
\* The constants of the operands built: the empty values and some integers
\* (10 on the left only: the powers stay within the integers of the model).
ConstInputs == {Null, Undefined, EmptyStr, Num(0), Num(3), Num(7), Num(-2)}
\* The children an operand is built from.
RightInputs == {Const(v) : v \in ConstInputs} \cup {Variable(q1)}
LeftInputs == RightInputs \cup {Const(Num(10))}
\* The values an operand is evaluated against.
ProcessValueInputs == {EmptyHash, [k \in {q1} |-> Num(5)]}

\* Strings of the expression inputs.
Text5 == Str(<<"5">>)
TextAbc == Str(<<"a","b","c">>)
TextB == Str(<<"b">>)
\* Sequences built by array literals.
Array12 == ArrayOperand(<<Const(Num(1)), Const(Num(2))>>)
Array23 == ArrayOperand(<<Const(Num(2)), Const(Num(3))>>)
Array123 == ArrayOperand(<<Const(Num(1)), Const(Num(2)), Const(Num(3))>>)
ArrayEmpty == ArrayOperand(<<>>)
ArrayX == ArrayOperand(<<Const(Str(<<"x">>))>>)
ArrayNull == ArrayOperand(<<Const(Null)>>)
\* A call of the registered function.
CountCall == FunctionOperand("count", ArrayOperand(<<Const(Num(3))>>))
\* A nested binary operand.
Q1Plus1 == BinaryOperand("plus", Variable(q1), Const(Num(1)), TRUE)

\* Comparisons: operands that are missing, null, undefined, a reference
\* to a variable no snapshot holds, numbers, strings and a sequence.
ComparisonOperandInputs ==
  {NoOperand, Const(Null), Const(Undefined), Variable(q2), Const(Num(3)),
   Const(Num(-2)), Const(Text5), Const(TextAbc)}
ComparisonInputs ==
  ComparisonNames \X ComparisonOperandInputs \X ComparisonOperandInputs
    \X {FALSE}
\* and / or: left operands of either truth value, right operands among
\* which a function call.
LogicalInputs ==
  {"and", "or"}
    \X {Const(Bool(TRUE)), Const(Bool(FALSE)), Const(Null), Variable(q1),
        Const(Num(0))}
    \X {CountCall, Const(Num(3)), Variable(q2)} \X {FALSE}
\* contains, notcontains, anyof, allof.
ContainmentLeftInputs ==
  {Const(Null), Const(EmptyStr), Const(Num(0)), ArrayEmpty, Array12, Array123,
   ArrayNull, Const(TextAbc), Const(Num(12))}
ContainmentRightInputs ==
  {Const(Null), Const(EmptyStr), ArrayEmpty, Const(Num(1)), Const(Num(0)),
   Const(TextB), Const(Str(<<"x">>)), Array12, Array23, Array123}
ContainmentInputs ==
  {"contains", "notcontains", "anyof", "allof"}
    \X ContainmentLeftInputs \X ContainmentRightInputs \X {FALSE}
\* Operands built to be printed: every operator that has a sign and some
\* that have none, over children of every kind, nested and missing.
PrintedNames ==
  (BinaryFunctionNames \ {"arithmeticOp"}) \cup {"foo"}
PrintedOperandInputs ==
  {<<Variable(q1), Q1Plus1>>, <<Q1Plus1, Array12>>, <<NoOperand, Variable(q1)>>,
   <<UnaryOperand(Variable(q1), "negate"), NoOperand>>,
   <<CountCall, Const(Text5)>>}
PrintedInputs ==
  {<<name, pair[1], pair[2], FALSE>> :
     name \in PrintedNames, pair \in PrintedOperandInputs}
    \cup ({"foo"} \X {Variable(q1)} \X {Q1Plus1} \X {TRUE})
\* What BinaryOperand is constructed from: arithmetic, and the whole
\* registry.
ArithmeticInputs == BinaryNameInputs \X LeftInputs \X RightInputs \X BOOLEAN
BinaryOperandInputs ==
  ComparisonInputs \cup LogicalInputs \cup ContainmentInputs
    \cup PrintedInputs
\* What UnaryOperand is constructed over.
ExpressionOperandInputs ==
  LeftInputs
    \cup {Const(Bool(TRUE)), Const(Bool(FALSE)), Const(NaN), Const(TextAbc),
          Const(Str(<<"0">>)), ArrayEmpty, Array12, Q1Plus1}
\* The literals a Const is constructed from.
ConstValueInputs ==
  {Null, Undefined, Bool(TRUE), Bool(FALSE), Num(0), Num(3), NaN, Arr(<<>>),
   Arr(<<Text5>>), EmptyStr, Str(<<" ">>), Text5, TextAbc,
   Str(<<"t","r","u","e">>), Str(<<"T","R","U","E">>),
   Str(<<"F","a","l","s","e">>), Str(<<"-","5">>), Str(<<"+","5">>),
   Str(<<"3","-","5">>), Str(<<"3","-","5"," ","y","e","a","r","s">>),
   Str(<<"1",".","5">>), Str(<<" ","5"," ">>), Str(<<"0","x","1","A">>),
   Str(<<"5","%">>), Str(<<"1","+","2">>), Str(<<"2","*","3">>),
   Str(<<"'", "5", "'">>)}
\* The names a Variable is constructed with.
VariableNameInputs == {q1, <<"Q","1">>, q2}
\* The snapshots a Variable is evaluated against: stored strings are
\* coerced.
VariableSnapshotInputs ==
  {EmptyHash, [k \in {q1} |-> Text5], [k \in {q1} |-> Num(5)],
   [k \in {q1} |-> Str(<<"T","r","u","e">>)], [k \in {q1} |-> TextAbc]}
\* The elements an ArrayOperand is constructed from.
ArrayInputs ==
  {<<>>, <<Const(Num(1)), Const(Num(2))>>, <<Variable(q1), Const(TextAbc)>>,
   <<Q1Plus1>>, <<Const(Null)>>}
\* The parameters a FunctionOperand is constructed with: an empty array or
\* an ArrayOperand.
ParametersInputs == {<<>>, ArrayEmpty, Array12, ArrayOperand(<<Variable(q1)>>)}
\* The snapshots the operand last constructed is evaluated against.
SnapshotInputs ==
  IF operand.k = "variable" THEN VariableSnapshotInputs ELSE ProcessValueInputs

\* ---------------------------------------------------------------------------
\* Actions: one per public call
\* ---------------------------------------------------------------------------
\* The survey after a call becomes the state.
ApplyState(s) ==
  /\ valuesHash' = s.vals
  /\ variablesHash' = s.vars
  /\ conditionVersion' = s.ver
  /\ isCompleted' = s.completed
  /\ currentPageValue' = s.page
  /\ questionErrors' = s.errs
  /\ isValidatingOnServer' = s.validating
  /\ serverOptions' = s.options
  /\ onCompleteCount' = s.nComplete
  /\ onCompleteSinceClear' = s.sinceClear
  /\ documentCookie' = s.cookie
  /\ isTimerStarted' = s.timer
  /\ isLoading' = s.loading
  /\ isCompletedBefore' = s.completedBefore
  /\ isStartedState' = s.startedState
  /\ timeSpent' = s.time
  /\ pageTimeSpent' = s.pageTime
  /\ snapshotLog' = s.snaps
  /\ trace' = s.trace
  /\ thrown' = s.thrown
  /\ cycle' = s.cycle
  /\ returned' = s.ret
  /\ UNCHANGED <<triggers, hasServerValidation, allowComplete, cookieName,
                 clearInvisibleValues, pages, firstPageIsStarted, mode,
                 isDesignMode, operand, ctorArgs, evalResult, evalTrace,
                 printed, hasFunctionResult, validatorVars, questionVars,
                 maxTimeToFinish, maxTimeToFinishPage, pageMaxTimeToFinish>>
\* A public call made by the application counts towards MaxOps.
Apply(s) == ApplyState(s) /\ opCount' = opCount + 1

CanCall == opCount < MaxOps
Call(name, args) == Log(Self, [e |-> "call", name |-> name, args |-> args])
\* The end of a method that returns nothing.
Void(s) == Return(s, Undefined)

SetValueOp ==
  /\ CanCall
  /\ \E in \in SetValueInputs :
       Apply(Void(SetValue(Call("setValue", in), in[1], in[2], in[3], 0)))

SetVariableOp ==
  /\ CanCall
  /\ \E in \in SetVariableInputs :
       Apply(Void(SetVariable(Call("setVariable", in), in[1], in[2])))

SetDataOp ==
  /\ CanCall
  /\ \E data \in InputData : Apply(Void(SetData(Call("data", <<data>>), data)))

SetTriggerValueOp ==
  /\ CanCall
  /\ \E in \in SetTriggerValueInputs :
       Apply(Void(SetTriggerValue(Call("setTriggerValue", in), in[1], in[2],
                                  in[3], 0)))

CopyTriggerValueOp ==
  /\ CanCall
  /\ \E in \in CopyTriggerValueInputs :
       Apply(Void(CopyTriggerValue(Call("copyTriggerValue", in), in[1], in[2], 0)))

NextPageOp ==
  /\ CanCall
  /\ Len(serverOptions) < MaxServerCalls
  /\ \E in \in HandlerInputs :
       Apply(NextPage(Call("nextPage", <<>>), in[1], in[2]))

PrevPageOp ==
  /\ CanCall
  /\ Apply(PrevPage(Call("prevPage", <<>>)))

CompleteLastPageOp ==
  /\ CanCall
  /\ Len(serverOptions) < MaxServerCalls
  /\ \E in \in HandlerInputs :
       Apply(CompleteLastPage(Call("completeLastPage", <<>>), in[1], in[2]))

DoCompleteOp ==
  /\ CanCall
  /\ Apply(Void(DoComplete(Call("doComplete", <<>>))))

\* setValue on the invisible question of the first page.
SetInvisibleValueOp ==
  /\ CanCall
  /\ Apply(Void(SetValue(Call("setValue", <<qh, Num(1), FALSE>>),
                         qh, Num(1), FALSE, 0)))

\* set currentPage(value), value one of the visible pages other than the
\* current one.
SetCurrentPageOp ==
  \E value \in 1..Len(VisiblePages) :
    /\ value # currentPageValue
    /\ ApplyState(Void(SetCurrentPage(Call("currentPage", <<value>>), value)))
    /\ UNCHANGED opCount

\* set data(data) on a survey without data.
SetInitialDataOp ==
  /\ valuesHash = EmptyHash
  /\ \E data \in InputData :
       ApplyState(Void(SetData(Call("data", <<data>>), data)))
  /\ UNCHANGED opCount

\* start() while the started page is showing.
StartOp ==
  /\ isStartedState
  /\ ApplyState(Void(Start(Call("start", <<>>))))
  /\ UNCHANGED opCount

\* loadSurveyFromService(surveyId, clientId), one request at a time.
LoadSurveyFromServiceOp ==
  /\ CanCall
  /\ ~isLoading
  /\ Apply(Void(LoadSurveyFromService(Call("loadSurveyFromService", <<>>))))

\* The service answers the request: it failed, or it succeeded, with or
\* without a definition, the survey completed by the client before or not.
ServiceRespondedOp ==
  /\ isLoading
  /\ \E success \in BOOLEAN, completed \in {"", "completed"},
        hasJson \in BOOLEAN :
       ApplyState(Void(ServiceResponded(
                         Call("getSurveyJsonAndIsCompleted.callback",
                              <<success, completed, hasJson>>),
                         success, completed, hasJson)))
  /\ UNCHANGED opCount

\* startTimer(): a second call changes nothing, so only the first is made.
StartTimerOp ==
  /\ ~isTimerStarted
  /\ ApplyState(Void(StartTimer(Call("startTimer", <<>>))))
  /\ UNCHANGED opCount

\* The number of options.complete() invocations made so far.
RECURSIVE Completions(_)
Completions(opts) ==
  IF opts = <<>> THEN 0
  ELSE opts[1].completions + Completions(Tail(opts))

\* The server validation handler sets options.errors on the i-th options
\* object and calls options.complete().
ServerCompleteOp ==
  /\ Completions(serverOptions) < MaxCompletes
  /\ \E i \in 1..Len(serverOptions), errors \in ServerErrors :
       /\ ApplyState(Void(CompleteServerValidation(
                            [Call("options.complete", <<i>>)
                               EXCEPT !.options[i].errors = errors], i)))
       /\ UNCHANGED opCount

\* A tick of the running timer.
DoTimerOp ==
  /\ isTimerStarted
  /\ timeSpent < MaxTime
  /\ Len(serverOptions) + 2 <= MaxServerCalls
  /\ \E in \in HandlerInputs :
       /\ ApplyState(Void(DoTimer(Call("doTimer", <<>>), in[1], in[2])))
       /\ UNCHANGED opCount

ClearOp ==
  /\ CanCall
  /\ \E clearData \in BOOLEAN, gotoFirstPage \in BOOLEAN :
       Apply(Void(Clear(Call("clear", <<clearData, gotoFirstPage>>), clearData, gotoFirstPage)))

RunExpressionOp ==
  /\ CanCall
  /\ \E expression \in ExpressionInputs :
       Apply(RunExpression(Call("runExpression", <<expression>>), expression))

\* ---------------------------------------------------------------------------
\* Specifications
\* ---------------------------------------------------------------------------
\* The three-page survey with the defaults of its properties: no started
\* page, edit mode, not in design mode.
InitPages ==
  /\ pages = Pages
  /\ firstPageIsStarted = FALSE
  /\ mode = "edit"
  /\ isDesignMode = FALSE
\* No time limit on the survey nor on a page (the defaults).
InitNoTimeLimits ==
  /\ maxTimeToFinish = 0
  /\ maxTimeToFinishPage = 0
  /\ pageMaxTimeToFinish = [p \in 1..Len(pages) |-> 0]
\* The survey's defaults: no onCompleting handler, no cookie name, the
\* values of invisible questions are cleared on complete.
InitDefaults ==
  /\ InitPages
  /\ InitNoTimeLimits
  /\ allowComplete = TRUE
  /\ cookieName = ""
  /\ clearInvisibleValues = "onComplete"
\* The survey right after it is loaded: empty store, first visible page
\* current.
InitSurvey ==
  /\ valuesHash = EmptyHash
  /\ variablesHash = EmptyHash
  /\ conditionVersion = 0
  /\ isCompleted = FALSE
  /\ currentPageValue = (IF Len(VisiblePages) > 0 THEN VisiblePages[1] ELSE 0)
  /\ isLoading = FALSE
  /\ isCompletedBefore = FALSE
  /\ isStartedState = firstPageIsStarted
  /\ timeSpent = 0
  /\ pageTimeSpent = [p \in 1..Len(pages) |-> 0]
  /\ questionErrors = [q \in QuestionNames |-> 0]
  /\ isValidatingOnServer = FALSE
  /\ serverOptions = <<>>
  /\ onCompleteCount = 0
  /\ onCompleteSinceClear = 0
  /\ documentCookie = FALSE
  /\ isTimerStarted = FALSE
  /\ trace = <<>>
  /\ snapshotLog = <<>>
  /\ thrown = FALSE
  /\ cycle = FALSE
  /\ returned = Undefined
  /\ opCount = 0
  /\ questions = QuestionsOfPages
  /\ questionHashes = HashesOf(questions)
  /\ found = NotLooked
InitNoOperand ==
  /\ operand = NoOperand
  /\ ctorArgs = NoCtorArgs
  /\ evalResult = NotEvaluated
  /\ evalTrace = <<>>
  /\ printed = NotPrinted
  /\ hasFunctionResult = NotAsked
  /\ validator = NoValidator
  /\ validated = NotValidated
  /\ runnerRun = NotRun

\* The value store and the trigger engine: a survey with one of the trigger
\* lists and no server validation handler.
Init ==
  /\ InitDefaults
  /\ InitSurvey
  /\ InitNoOperand
  /\ triggers \in TriggerConfigs
  /\ hasServerValidation = FALSE

Next ==
  \/ SetValueOp
  \/ SetVariableOp
  \/ SetDataOp
  \/ SetTriggerValueOp
  \/ CopyTriggerValueOp
  \/ NextPageOp
  \/ PrevPageOp
  \/ DoCompleteOp
  \/ ClearOp
  \/ RunExpressionOp

Spec == Init /\ [][Next]_vars

\* Paging, completion and server validation: a survey with or without a
\* server validation handler, without triggers or with the page-advance ones.
InitServer ==
  /\ InitDefaults
  /\ InitSurvey
  /\ InitNoOperand
  /\ triggers \in {<<>>, PageAdvanceTriggers}
  /\ hasServerValidation \in BOOLEAN

NextServer ==
  \/ SetValueOp
  \/ NextPageOp
  \/ PrevPageOp
  \/ CompleteLastPageOp
  \/ DoCompleteOp
  \/ ServerCompleteOp
  \/ ClearOp

SpecServer == InitServer /\ [][NextServer]_vars

\* Completion: a survey with or without an onCompleting handler that resets
\* options.allowComplete, with or without a cookie name, clearing the values
\* of invisible questions on complete or keeping them.
InitComplete ==
  /\ InitPages
  /\ InitNoTimeLimits
  /\ InitSurvey
  /\ InitNoOperand
  /\ triggers \in {<<>>, PageAdvanceTriggers}
  /\ hasServerValidation = FALSE
  /\ allowComplete \in BOOLEAN
  /\ cookieName \in {"", "survey"}
  /\ clearInvisibleValues \in {"onComplete", "none"}

NextComplete ==
  \/ SetValueOp
  \/ SetInvisibleValueOp
  \/ StartTimerOp
  \/ SetCurrentPageOp
  \/ NextPageOp
  \/ CompleteLastPageOp
  \/ DoCompleteOp
  \/ ClearOp

SpecComplete == InitComplete /\ [][NextComplete]_vars

\* The survey's state: a survey of the three pages or without pages, with
\* or without a started page, in edit or display mode, in design mode or
\* not, with or without a cookie name.
InitState ==
  /\ pages \in {Pages, <<>>}
  /\ firstPageIsStarted \in BOOLEAN
  /\ mode \in {"edit", "display"}
  /\ isDesignMode \in BOOLEAN
  /\ InitNoTimeLimits
  /\ allowComplete = TRUE
  /\ cookieName \in {"", "survey"}
  /\ clearInvisibleValues = "onComplete"
  /\ InitSurvey
  /\ InitNoOperand
  /\ triggers = <<>>
  /\ hasServerValidation = FALSE

NextState ==
  \/ SetInitialDataOp
  \/ SetCurrentPageOp
  \/ StartOp
  \/ LoadSurveyFromServiceOp
  \/ ServiceRespondedOp
  \/ DoCompleteOp
  \/ ClearOp

SpecState == InitState /\ [][NextState]_vars

\* The timer: a survey with or without a time limit for the whole survey
\* and for a page (the second page is without a limit, the third page has
\* its own), without triggers and without a server validation handler.
InitTimer ==
  /\ InitPages
  /\ maxTimeToFinish \in {0, 1, 2}
  /\ maxTimeToFinishPage \in {0, 1}
  /\ pageMaxTimeToFinish \in {<<0, 0, 0>>, <<0, -1, 2>>}
  /\ allowComplete = TRUE
  /\ cookieName = ""
  /\ clearInvisibleValues = "onComplete"
  /\ InitSurvey
  /\ InitNoOperand
  /\ triggers = <<>>
  /\ hasServerValidation = FALSE

NextTimer ==
  \/ StartTimerOp
  \/ DoTimerOp
  \/ SetCurrentPageOp
  \/ NextPageOp
  \/ CompleteLastPageOp
  \/ DoCompleteOp
  \/ ClearOp

SpecTimer == InitTimer /\ [][NextTimer]_vars

\* The questions: a survey of one empty page that questions are added to
\* and looked up in.
Q1 == <<"Q","1">>
MaxQuestions == 3
\* The name and the valueName of the questions added.
QuestionInputs == {<<q1, <<>>>>, <<Q1, <<>>>>, <<q2, q1>>, <<q3, Q1>>}
\* The names asked for.
LookupNames == {q1, Q1, q2}
\* questionAdded(question, ...) for a named question put on the first page.
QuestionAddedOp ==
  /\ Len(questions) < MaxQuestions
  /\ Len(pages) > 0
  /\ \E input \in QuestionInputs :
       LET question == QuestionObject(Len(questions) + 1, input[1], input[2])
       IN /\ questions' = Append(questions, question)
          /\ questionHashes' = QuestionHashesAdded(questionHashes, question)
          /\ pages' = [pages EXCEPT
                         ![1] = Append(@, Question(input[1], TRUE, FALSE))]
  /\ found' = NotLooked
  /\ UNCHANGED <<surveyVars, operandVars, validatorVars>>
GetQuestionByNameOp ==
  /\ \E name \in LookupNames, caseInsensitive \in BOOLEAN :
       found' = Looked("getQuestionByName", name, caseInsensitive,
                       GetQuestionByName(questionHashes, name,
                                         caseInsensitive))
  /\ UNCHANGED <<surveyVars, pages, questions, questionHashes, operandVars,
                 validatorVars>>
GetQuestionByValueNameOp ==
  /\ \E name \in LookupNames, caseInsensitive \in BOOLEAN :
       found' = Looked("getQuestionByValueName", name, caseInsensitive,
                       GetQuestionByValueName(questionHashes, name,
                                              caseInsensitive))
  /\ UNCHANGED <<surveyVars, pages, questions, questionHashes, operandVars,
                 validatorVars>>

InitQuestions ==
  /\ pages = << <<>> >>
  /\ InitNoTimeLimits
  /\ firstPageIsStarted = FALSE
  /\ mode = "edit"
  /\ isDesignMode = FALSE
  /\ allowComplete = TRUE
  /\ cookieName = ""
  /\ clearInvisibleValues = "onComplete"
  /\ InitSurvey
  /\ InitNoOperand
  /\ triggers = <<>>
  /\ hasServerValidation = FALSE

NextQuestions ==
  \/ QuestionAddedOp
  \/ GetQuestionByNameOp
  \/ GetQuestionByValueNameOp

SpecQuestions == InitQuestions /\ [][NextQuestions]_vars

\* Operands: construction and evaluation.
\* A constructor returned or threw: nothing has been asked of the operand.
Constructed ==
  /\ opCount < MaxOperands
  /\ opCount' = opCount + 1
  /\ evalResult' = NotEvaluated
  /\ evalTrace' = <<>>
  /\ printed' = NotPrinted
  /\ hasFunctionResult' = NotAsked
  /\ UNCHANGED <<stateVars, validatorVars>>

\* new BinaryOperand(operatorName, left, right, isArithmeticOp), the
\* arguments drawn from `inputs`.
NewBinaryOperandIn(inputs) ==
  /\ \E in \in inputs :
       /\ operand' = BinaryOperand(in[1], in[2], in[3], in[4])
       /\ ctorArgs' = [class |-> "BinaryOperand", operatorName |-> in[1],
                       left |-> in[2], right |-> in[3],
                       isArithmeticOp |-> in[4]]
  /\ Constructed
NewBinaryOperand == NewBinaryOperandIn(ArithmeticInputs)
NewBinaryOperandAny == NewBinaryOperandIn(BinaryOperandInputs)

\* new UnaryOperand(expression, operatorName), the expression drawn from
\* `expressions`.
NewUnaryOperandIn(expressions) ==
  /\ \E operatorName \in UnaryNameInputs, expression \in expressions :
       /\ operand' = UnaryOperand(expression, operatorName)
       /\ ctorArgs' = [class |-> "UnaryOperand", operatorName |-> operatorName,
                       expression |-> expression]
  /\ Constructed
NewUnaryOperand == NewUnaryOperandIn(LeftInputs)
NewUnaryOperandAny == NewUnaryOperandIn(ExpressionOperandInputs)

NewConst ==
  /\ \E value \in ConstValueInputs :
       /\ operand' = Const(value)
       /\ ctorArgs' = [class |-> "Const", value |-> value]
  /\ Constructed

NewVariable ==
  /\ \E variableName \in VariableNameInputs :
       /\ operand' = Variable(variableName)
       /\ ctorArgs' = [class |-> "Variable", variableName |-> variableName]
  /\ Constructed

NewArrayOperand ==
  /\ \E values \in ArrayInputs :
       /\ operand' = ArrayOperand(values)
       /\ ctorArgs' = [class |-> "ArrayOperand", values |-> values]
  /\ Constructed

NewFunctionOperand ==
  /\ \E origionalValue \in RegisteredFunctions,
        parameters \in ParametersInputs :
       /\ operand' = FunctionOperand(origionalValue, parameters)
       /\ ctorArgs' = [class |-> "FunctionOperand",
                       origionalValue |-> origionalValue,
                       parameters |-> parameters]
  /\ Constructed

\* evaluate(processValue) on the operand last constructed.
EvaluateOperand ==
  /\ operand.k \notin {"none", "threw"}
  /\ \E values \in SnapshotInputs :
       /\ evalResult' = Evaluated(values, Evaluate(operand, values))
       /\ evalTrace' = EvaluationTrace(operand, values)
  /\ UNCHANGED <<operand, ctorArgs, printed, hasFunctionResult, opCount,
                 stateVars, validatorVars>>

\* toString() on the operand last constructed.
ToStringOperand ==
  /\ operand.k \notin {"none", "threw"}
  /\ printed' = IF ToStringReturns(operand)
                THEN Printed(OperandToString(operand)) ELSE ToStringThrew
  /\ UNCHANGED <<operand, ctorArgs, evalResult, evalTrace, hasFunctionResult,
                 opCount, stateVars, validatorVars>>

\* hasFunction() on the operand last constructed.
HasFunctionOperand ==
  /\ operand.k \notin {"none", "threw"}
  /\ hasFunctionResult' = Asked(HasFunction(operand))
  /\ UNCHANGED <<operand, ctorArgs, evalResult, evalTrace, printed, opCount,
                 stateVars, validatorVars>>

InitExpr ==
  /\ InitDefaults
  /\ InitSurvey
  /\ InitNoOperand
  /\ triggers = <<>>
  /\ hasServerValidation = FALSE

NextExpr ==
  \/ NewBinaryOperand
  \/ NewUnaryOperand
  \/ EvaluateOperand

SpecExpr == InitExpr /\ [][NextExpr]_vars

\* Operands of every class over the whole registry: construction,
\* evaluation and printing.
NextOperand ==
  \/ NewBinaryOperandAny
  \/ NewUnaryOperandAny
  \/ NewConst
  \/ NewVariable
  \/ NewArrayOperand
  \/ NewFunctionOperand
  \/ EvaluateOperand
  \/ ToStringOperand

SpecOperand == InitExpr /\ [][NextOperand]_vars

\* Operand trees and hasFunction(): trees of every class, nested up to
\* MaxTreeDepth levels above the leaves, with and without a function call.
MaxTreeDepth == 2
TreeLeaves ==
  {Const(Num(1)), Variable(q1), FunctionOperand("count", <<>>),
   FunctionOperand("count", Array12)}
RECURSIVE OperandTrees(_)
OperandTrees(depth) ==
  IF depth = 0 THEN TreeLeaves
  ELSE LET sub == OperandTrees(depth - 1)
       IN sub \cup {UnaryOperand(x, "negate") : x \in sub}
              \cup {BinaryOperand("and", x, y, FALSE) :
                      x \in sub, y \in TreeLeaves}
              \cup {BinaryOperand("and", NoOperand, x, FALSE) : x \in sub}
              \cup {ArrayOperand(<<x>>) : x \in sub}
              \cup {FunctionOperand("count", ArrayOperand(<<x>>)) :
                      x \in sub}
\* The parser's result: a tree built bottom-up by the constructors.
NewOperandTree ==
  /\ \E tree \in OperandTrees(MaxTreeDepth) :
       /\ operand' = tree
       /\ ctorArgs' = [class |-> tree.k]
  /\ Constructed

NextHasFunction ==
  \/ NewOperandTree
  \/ HasFunctionOperand

SpecHasFunction == InitExpr /\ [][NextHasFunction]_vars

\* Validators: construction, validate, validateAllValues and the runner.
\* The bounds and values of numeric validation.
NumericValidatorInputs ==
  {NumericValidator(minValue, maxValue) :
     minValue \in {Null, Num(1)}, maxValue \in {Null, Num(10), Num(30)}}
NumericValueInputs ==
  {Null, Undefined, EmptyStr, Num(0), Num(1), Num(5), Num(10), Num(11),
   Frac(3, 2), Infinity, NaN, Bool(TRUE), TextAbc, Text5, Str(<<"0">>),
   Str(<<"1", "0">>), Str(<<"1", "1">>), Str(<<"5", "a", "b", "c">>),
   Str(<<"0", "x", "1", "A">>)}
\* The bounds and values of text validation.
TextValidatorInputs ==
  {TextValidator(minLength, maxLength, allowDigits) :
     minLength \in {0, 3}, maxLength \in {0, 5}, allowDigits \in BOOLEAN}
TextValueInputs ==
  {Null, Undefined, Arr(<<>>), EmptyStr, Str(<<"a", "b">>),
   Str(<<"a", "1", "c">>), Str(<<"a", "b", "c", "d">>),
   Str(<<"a", " ", "B", "c", "d">>), Str(<<"a", "b", "c", "d", "e", "f">>),
   Str(<<"1", "2">>), Str(<<"a", "b", "1", "2", "3", "4">>)}
\* The patterns and values of regex validation.
TextAb == Str(<<"a", "b">>)
TextCd == Str(<<"c", "d">>)
Text12 == Str(<<"1", "2">>)
RegexInputs == {Null, EmptyStr, LowerPattern, DigitsPattern, HasAPattern}
RegexValueInputs ==
  {Null, EmptyStr, Arr(<<>>), TextAb, TextCd, Text12, Num(12), Arr(<<TextAb>>),
   Arr(<<TextAb, TextCd>>), Arr(<<TextAb, Text12, TextCd>>),
   Arr(<<Text12, TextCd, TextAb>>), Arr(<<Num(1), Num(2)>>)}
\* The expressions, datasets and own values of expression validation.
ExpressionTextInputs == {EmptyStr, SumIsFiveText, SumIsSixText, AIsTwoText}
DatasetInputs ==
  {EmptyHash, (va :> Num(2)) @@ (vb :> Num(3)), (va :> Num(2)) @@ (vb :> Num(4)),
   (va :> Num(3)) @@ (vb :> Num(3))}
OwnValueInputs == {Null, Num(2)}
\* The owners ValidatorRunner.run is given.
ExpressionValidatorOn(expression) ==
  [ExpressionValidator EXCEPT !.expression = expression]
OwnerValidatorsInputs ==
  {<<>>,
   <<NumericValidator(Num(1), Num(10)), TextValidator(3, 5, FALSE),
     RegexValidator(DigitsPattern)>>,
   <<ExpressionValidatorOn(SumIsFiveText), NumericValidator(Num(1), Null),
     ExpressionValidatorOn(AIsTwoText)>>,
   <<RegexValidator(LowerPattern), ExpressionValidatorOn(SumIsSixText)>>,
   <<TextValidator(0, 0, FALSE), NumericValidator(Null, Num(10)),
     RegexValidator(LowerPattern), NumericValidator(Num(1), Num(10))>>}
OwnerInputs ==
  {[validators |-> validators, validatedValue |-> value, values |-> values] :
     validators \in OwnerValidatorsInputs,
     value \in {Null, Num(0), Num(5), TextAbc, Text5, Str(<<"a", "1">>)},
     values \in DatasetInputs}

\* A validator has been constructed: nothing has been asked of it.
NewValidator(object) ==
  /\ validator' = object
  /\ validated' = NotValidated
  /\ UNCHANGED <<runnerRun, operandVars, stateVars>>
NewNumericValidator ==
  \E object \in NumericValidatorInputs : NewValidator(object)
NewTextValidator ==
  \E object \in TextValidatorInputs : NewValidator(object)
NewRegexValidator ==
  \E regex \in RegexInputs : NewValidator(RegexValidator(regex))
NewExpressionValidator == NewValidator(ExpressionValidator)

\* validator.expression = text
SetExpressionOp ==
  /\ validator.type = "expressionvalidator"
  /\ \E text \in ExpressionTextInputs :
       validator' = [validator EXCEPT !.expression = text]
  /\ UNCHANGED <<validated, runnerRun, operandVars, stateVars>>

\* validate(value) returned result.
ValidateReturned(value, result) ==
  /\ validated' = [done |-> TRUE, method |-> "validate", value |-> value,
                   result |-> result]
  /\ UNCHANGED <<validator, runnerRun, operandVars, stateVars>>
NumericValidateOp ==
  /\ validator.type = "numericvalidator"
  /\ \E value \in NumericValueInputs :
       ValidateReturned(value, NumericValidate(validator, value))
TextValidateOp ==
  /\ validator.type = "textvalidator"
  /\ \E value \in TextValueInputs :
       ValidateReturned(value, TextValidate(validator, value))
RegexValidateOp ==
  /\ validator.type = "regexvalidator"
  /\ \E value \in RegexValueInputs :
       ValidateReturned(value, RegexValidate(validator, value))

\* What the call before the last one was given and returned.
PreviousCall ==
  IF validated.done
  THEN [done |-> TRUE, values |-> validated.values,
        result |-> validated.result, expression |-> validated.before.expression]
  ELSE [done |-> FALSE]
\* validateAllValues(value, values, properties)
ValidateAllValuesOp ==
  /\ validator.type = "expressionvalidator"
  /\ \E value \in OwnValueInputs, values \in DatasetInputs :
       LET done == ExpressionValidateAllValues(validator, value, values)
       IN /\ validator' = done.validator
          /\ validated' = [done |-> TRUE, method |-> "validateAllValues",
                           value |-> value, values |-> values,
                           result |-> done.result, before |-> validator,
                           previous |-> PreviousCall]
  /\ UNCHANGED <<runnerRun, operandVars, stateVars>>

\* new ValidatorRunner().run(owner)
ValidatorRunnerRunOp ==
  /\ \E owner \in OwnerInputs :
       LET run == ValidatorRunnerRun(owner)
       IN runnerRun' = [done |-> TRUE, owner |-> owner, res |-> run.res,
                        calls |-> run.calls, after |-> run.owner.validators]
  /\ UNCHANGED <<validator, validated, operandVars, stateVars>>

InitValidator == InitExpr
NextValidator ==
  \/ NewNumericValidator
  \/ NewTextValidator
  \/ NewRegexValidator
  \/ NewExpressionValidator
  \/ SetExpressionOp
  \/ NumericValidateOp
  \/ TextValidateOp
  \/ RegexValidateOp
  \/ ValidateAllValuesOp

SpecValidator == InitValidator /\ [][NextValidator]_vars

\* The validator runner over owners of every kind.
NextRunner == ValidatorRunnerRunOp

SpecRunner == InitValidator /\ [][NextRunner]_vars
\* ---------------------------------------------------------------------------
\* Properties
\* ---------------------------------------------------------------------------
\* The events of the last call with the given tag, as positions in trace.
Events(tag) == {j \in 1..Len(trace) : trace[j].e = tag}
\* The last call was the method `name`.
LastCall(name) == trace # <<>> /\ trace[1].name = name

\* C1: after server validation has started, every invocation of
\* options.complete() on an options object after its first one is a no-op:
\* the current page, the completed flag, the question errors and the number
\* of onComplete notifications stay as they are.
C1_RepeatedCompleteIsNoOp ==
  [][\A i \in 1..Len(serverOptions) :
       (/\ Len(serverOptions') = Len(serverOptions)
        /\ serverOptions[i].completions >= 1
        /\ serverOptions'[i].completions = serverOptions[i].completions + 1)
       => /\ currentPageValue' = currentPageValue
          /\ isCompleted' = isCompleted
          /\ questionErrors' = questionErrors
          /\ onCompleteCount' = onCompleteCount]_vars

\* C2: a value write made by a trigger action inside checkTriggers starts no
\* nested checkTriggers, so within one external change every checkTriggers
\* runs at the outermost level, every trigger is evaluated at most once and
\* no trigger action runs twice.
C2_NoNestedCheckTriggers ==
  /\ \A j \in Events("checkTriggers") : trace[j].level = 1
  /\ \A j, k \in Events("checkExpression") :
       trace[j].trigger = trace[k].trigger => j = k
  /\ \A j, k \in Events("action") :
       trace[j].trigger = trace[k].trigger => j = k

\* C3: every external setValue returns, whatever the onValueChange triggers
\* are: no setValue call re-enters itself without end and none exhausts the
\* call stack.
C3_SetValueReturns == LastCall("setValue") => ~cycle /\ ~thrown

\* C4: once the survey is completed no trigger is evaluated and no trigger
\* action executes, also for the triggers that follow, in the same
\* checkTriggers loop, a trigger whose action completed the survey.
C4_NoTriggerOnceCompleted ==
  \A j \in Events("checkExpression") \cup Events("action") :
    ~trace[j].completed

\* The survey with the single trigger: {q1} > 3 sets q2 to 1 on a value change.
SingleTrigger == << SetValueTrigger(Greater(q1, 3), q2, Num(1), FALSE, FALSE) >>
\* The store holds the value under the name.
Holds(store, name, value) == name \in DOMAIN store /\ store[name] = value
\* The step is the call setValue(name, value) with notification.
SetValueStep(name, value) ==
  /\ opCount' = opCount + 1
  /\ trace'[1].name = "setValue"
  /\ trace'[1].args = <<name, value, FALSE>>

\* C5 as stated: with the store {q1: 5} and the single trigger, setValue(q1, 5)
\* on a running survey ends with q2 = 1, and a later setValue(q1, 2) leaves
\* q2 = 1.
C5_SettingFiveSetsQ2 ==
  [][(triggers = SingleTrigger /\ ~isCompleted) =>
       /\ (valuesHash = [k \in {q1} |-> Num(5)] /\ SetValueStep(q1, Num(5)))
            => Holds(valuesHash', q2, Num(1))
       /\ (Holds(valuesHash, q2, Num(1)) /\ SetValueStep(q1, Num(2)))
            => Holds(valuesHash', q2, Num(1))]_vars

\* C5 amended: with the single trigger, a setValue(q1, 5) on a running survey
\* whose stored q1 is not 5 yet ends with q2 = 1, and a later setValue(q1, 2)
\* leaves q2 = 1.
C5_ChangingToFiveSetsQ2 ==
  [][(triggers = SingleTrigger /\ ~isCompleted) =>
       /\ (~Holds(valuesHash, q1, Num(5)) /\ SetValueStep(q1, Num(5)))
            => Holds(valuesHash', q2, Num(1))
       /\ (Holds(valuesHash, q2, Num(1)) /\ SetValueStep(q1, Num(2)))
            => Holds(valuesHash', q2, Num(1))]_vars
\* q1 was set to 5 and then to 2, and q2 is still 1.
C5_Witness ==
  /\ triggers = SingleTrigger
  /\ LastCall("setValue") /\ trace[1].args = <<q1, Num(2), FALSE>>
  /\ Holds(valuesHash, q1, Num(2))
  /\ Holds(valuesHash, q2, Num(1))

\* The checkTriggers call that the event at position j, made at nesting
\* level l, belongs to: the last one before j that started at that level.
Enclosing(j, l) ==
  CHOOSE k \in Events("checkTriggers") :
    /\ k < j /\ trace[k].level = l
    /\ \A m \in Events("checkTriggers") :
         (m < j /\ trace[m].level = l) => m <= k
\* The names of the visible, named questions of a page.
VisibleNamed(page) ==
  {pages[page][i].name :
     i \in {k \in 1..Len(pages[page]) :
              pages[page][k].visible /\ pages[page][k].name # <<>>}}

\* C6: every checkTriggers call evaluates exactly the triggers whose scope is
\* its context: setValue and the data setter those with isOnNextPage false,
\* doNextPage those with isOnNextPage true, before the current page changes
\* and with the values of the visible named questions of the current page as
\* the key.
C6_TriggerScopes ==
  /\ \A j \in Events("checkExpression") :
       triggers[trace[j].trigger].isOnNextPage
         = trace[Enclosing(j, trace[j].level)].isOnNextPage
  /\ \A k \in Events("checkTriggers") :
       ~thrown =>
         \A i \in 1..Len(triggers) :
           triggers[i].isOnNextPage = trace[k].isOnNextPage =>
             \E j \in Events("checkExpression") :
               /\ trace[j].trigger = i
               /\ trace[j].level = trace[k].level
               /\ j > k /\ Enclosing(j, trace[j].level) = k
  /\ (LastCall("setValue") \/ LastCall("data")) =>
       \A k \in Events("checkTriggers") : ~trace[k].isOnNextPage
  /\ \A k \in Events("checkTriggers") :
       trace[k].isOnNextPage =>
         /\ LastCall("nextPage") \/ LastCall("options.complete")
         /\ trace[k].level = 1
         /\ \A c \in Events("currentPage") :
              k < c /\ trace[c].page = trace[k].page + 1
         /\ trace[k].key =
              [n \in VisibleNamed(trace[k].page) |->
                 IF n \in DOMAIN trace[k].vals THEN trace[k].vals[n]
                 ELSE Undefined]
\* nextPage evaluated a page-advance trigger, whose action made a write that
\* had a value-change trigger evaluated, and went to the next page.
C6_Witness ==
  /\ LastCall("nextPage")
  /\ \E j \in Events("checkExpression") :
       triggers[trace[j].trigger].isOnNextPage /\ trace[j].level = 1
  /\ \E j \in Events("checkExpression") :
       ~triggers[trace[j].trigger].isOnNextPage /\ trace[j].level = 2
  /\ Events("currentPage") # {}

\* The name is a path below its leading name.
IsNested(name) == \E i \in 1..Len(name) : name[i] \in {".", "["}
\* The leading name of a nested path.
Leading(name) ==
  SubSeq(name, 1, Min({i \in 1..Len(name) : name[i] \in {".", "["}}) - 1)
LeavesAllAlone ==
  /\ valuesHash' = valuesHash
  /\ variablesHash' = variablesHash
  /\ conditionVersion' = conditionVersion
  /\ Len(trace') = 1

\* C7 as stated: setTriggerValue with an empty name, or with a nested path
\* whose leading name has no current value, and copyTriggerValue with an
\* empty name or an empty source name, leave the value store and the
\* variables unchanged and fire no triggers and no notifications.
C7_UnresolvableWriteIsNoOp ==
  [][(opCount' = opCount + 1 /\
        \/ /\ trace'[1].name = "setTriggerValue"
           /\ \/ trace'[1].args[1] = <<>>
              \/ /\ IsNested(trace'[1].args[1])
                 /\ Leading(trace'[1].args[1]) \notin DOMAIN valuesHash
        \/ /\ trace'[1].name = "copyTriggerValue"
           /\ trace'[1].args[1] = <<>> \/ trace'[1].args[2] = <<>>)
      => LeavesAllAlone]_vars

\* C7 amended: the same, the nested path case being a write to a value
\* (isVariable false).
C7_UnresolvableValueWriteIsNoOp ==
  [][(opCount' = opCount + 1 /\
        \/ /\ trace'[1].name = "setTriggerValue"
           /\ \/ trace'[1].args[1] = <<>>
              \/ /\ ~trace'[1].args[3]
                 /\ IsNested(trace'[1].args[1])
                 /\ Leading(trace'[1].args[1]) \notin DOMAIN valuesHash
        \/ /\ trace'[1].name = "copyTriggerValue"
           /\ trace'[1].args[1] = <<>> \/ trace'[1].args[2] = <<>>)
      => LeavesAllAlone]_vars
\* setTriggerValue("q3.a", 1, false) was called on a store that holds q1 and
\* not q3, and did nothing.
C7_Witness ==
  /\ LastCall("setTriggerValue") /\ trace[1].args = <<q3a, Num(1), FALSE>>
  /\ q1 \in DOMAIN valuesHash /\ q3 \notin DOMAIN valuesHash
  /\ Len(trace) = 1

\* C8: the conditionVersion of every snapshot getFilteredValues builds is
\* strictly greater than that of every snapshot built before it.
C8_VersionsIncrease ==
  \A i, j \in 1..Len(snapshotLog) : i < j => snapshotLog[i] < snapshotLog[j]
\* Snapshots were built before and during a clear().
C8_Witness ==
  /\ LastCall("clear")
  /\ Events("snapshot") # {}
  /\ Len(snapshotLog) > Cardinality(Events("snapshot"))

\* The operator name given to the constructor is not in its registry.
UnknownOperator ==
  \/ ctorArgs.class = "BinaryOperand"
       /\ ctorArgs.operatorName \notin BinaryFunctionNames
  \/ ctorArgs.class = "UnaryOperand"
       /\ ctorArgs.operatorName \notin UnaryFunctionNames

\* C9: constructing a BinaryOperand or UnaryOperand with an operator name
\* that is not in the registry throws, whether isArithmeticOp is false or
\* true; no such operand is constructed and later evaluates to null.
C9_UnknownOperatorThrows == UnknownOperator => operand = InvalidOperator

\* The integer an operand child stands for once empty values count as 0.
IntOf(child, values) ==
  IF child.k = "variable"
  THEN (IF child.variableName \in DOMAIN values
        THEN values[child.variableName].n ELSE 0)
  ELSE IF child.value \in {Null, Undefined, EmptyStr} THEN 0
  ELSE child.value.n
\* v is the number x / y (y not 0).
IsRatio(v, x, y) == v.t = "number" /\ v.d > 0 /\ v.n * y = x * v.d
\* v is what the arithmetic operator gives for the integers x and y.
IsArithmeticResult(name, x, y, v) ==
  CASE name = "plus" -> v = Num(x + y)
    [] name = "minus" -> v = Num(x - y)
    [] name = "mul" -> v = Num(x * y)
    [] name = "div" -> IF y = 0 THEN v = Null ELSE IsRatio(v, x, y)
    [] name = "mod" ->
         IF y = 0 THEN v = Null ELSE v = Num(Sign(x) * (Abs(x) % Abs(y)))
    [] name = "power" ->
         IF y >= 0 THEN v = Num(IntPow(x, y))
         ELSE IF x = 0 THEN v = Infinity
         ELSE IsRatio(v, 1, IntPow(x, -y))

\* C10: a BinaryOperand built with isArithmeticOp for plus, minus, mul, div,
\* mod or power evaluates with every empty operand (null, undefined, "")
\* counted as 0, and div and mod give null when the right operand is zero or
\* empty: div(10, 0) = null, mod(7, 0) = null, plus(null, 3) = 3.
C10_EmptyOperandsAreZero ==
  (/\ evalResult.done
   /\ ctorArgs.class = "BinaryOperand"
   /\ ctorArgs.isArithmeticOp
   /\ ctorArgs.operatorName \in ArithmeticNames)
  => IsArithmeticResult(ctorArgs.operatorName,
                        IntOf(ctorArgs.left, evalResult.values),
                        IntOf(ctorArgs.right, evalResult.values),
                        evalResult.value)
\* div(10, 0) with isArithmeticOp was evaluated and gave null.
C10_Witness ==
  /\ evalResult.done
  /\ ctorArgs.class = "BinaryOperand"
  /\ ctorArgs.isArithmeticOp
  /\ ctorArgs.operatorName = "div"
  /\ ctorArgs.left = Const(Num(10))
  /\ ctorArgs.right = Const(Num(0))
  /\ evalResult.value = Null

\* A BinaryOperand was constructed with the operator and evaluated.
EvaluatedBinary(names) ==
  /\ evalResult.done
  /\ ctorArgs.class = "BinaryOperand"
  /\ ctorArgs.operatorName \in names
\* The child evaluates to null or undefined: it is missing, a null or
\* undefined constant, or a variable the snapshot does not hold.
EvaluatesToNull(child, values) ==
  \/ child.k = "none"
  \/ child.k = "const" /\ child.value \in {Null, Undefined}
  \/ child.k = "variable" /\ child.variableName \notin DOMAIN values

C12_BothOperandsEvaluated ==
  EvaluatedBinary({"and", "or"})
  => evalTrace = <<Visit(operand)>>
                   \o EvaluationTrace(ctorArgs.left, evalResult.values)
                   \o EvaluationTrace(ctorArgs.right, evalResult.values)
\* false && count(3) was evaluated: the function ran although the left
\* operand decides the result.
C12_Witness ==
  /\ EvaluatedBinary({"and"})
  /\ ctorArgs.left = Const(Bool(FALSE)) /\ ctorArgs.right = CountCall
  /\ evalResult.value = Bool(FALSE)
  /\ \E i \in 1..Len(evalTrace) : evalTrace[i] = RunEvent("count", <<Num(3)>>)
  /\ evalTrace[2] = Visit(Const(Bool(FALSE)))

\* The values the two children of the evaluated binary operand gave.
LeftValue == Evaluate(ctorArgs.left, evalResult.values)
RightValue == Evaluate(ctorArgs.right, evalResult.values)

\* The elements of a right operand: those of a sequence, the value itself
\* otherwise.
ElementsOf(v) == IF v.t = "array" THEN v.a ELSE <<v>>

\* A sequence holds a value equal to e.
HoldsElement(v, e) ==
  \E i \in 1..Len(v.a) : IsTwoValueEquals(v.a[i], e)

\* The result the contract of anyof gives.
AnyOfContract(left, right) ==
  IF IsValueEmpty(left) \/ left.t # "array" THEN FALSE
  ELSE IF IsValueEmpty(right) THEN TRUE
  ELSE \E i \in 1..Len(ElementsOf(right)) :
         HoldsElement(left, ElementsOf(right)[i])

\* C13: anyof(left, right) is false if left is empty or is not a sequence,
\* also when right is empty as well; otherwise true if right is empty;
\* otherwise true iff left holds at least one element of right, a
\* non-sequence right being a singleton.
C13_AnyOfAsStated ==
  (EvaluatedBinary({"anyof"}) /\ ~ctorArgs.isArithmeticOp)
    => evalResult.value = Bool(AnyOfContract(LeftValue, RightValue))

\* anyof(null, null) was evaluated and gave true.
C13_EmptyBothIsTrue ==
  /\ EvaluatedBinary({"anyof"}) /\ ~ctorArgs.isArithmeticOp
  /\ ctorArgs.left = Const(Null) /\ ctorArgs.right = Const(Null)
  /\ evalResult.value = Bool(TRUE)

\* The elements a right operand asks for: none when it is empty.
AskedElements(v) == IF IsValueEmpty(v) THEN <<>> ELSE ElementsOf(v)

\* The result the contract of allof gives.
AllOfContract(left, right) ==
  IF IsValueEmpty(left) /\ ~IsValueEmpty(right) THEN FALSE
  ELSE \A i \in 1..Len(AskedElements(right)) :
         Contains(left, AskedElements(right)[i])

\* C14: allof(left, right) is false if left is empty and right is not, and
\* otherwise true iff left contains every element of right; an empty
\* right has no elements to miss, whether it is null or an empty array.
C14_AllOfAsStated ==
  (EvaluatedBinary({"allof"}) /\ ~ctorArgs.isArithmeticOp)
    => evalResult.value = Bool(AllOfContract(LeftValue, RightValue))

\* allof([1, 2], null) was evaluated and gave false.
C14_NullRightIsMissed ==
  /\ EvaluatedBinary({"allof"}) /\ ~ctorArgs.isArithmeticOp
  /\ ctorArgs.left = Array12 /\ ctorArgs.right = Const(Null)
  /\ evalResult.value = Bool(FALSE)

\* The result the contract of notcontains gives.
NotContainsContract(left, right) ==
  IF IsValueEmpty(left) /\ ~IsValueEmpty(right) THEN TRUE
  ELSE ~Contains(left, right)

\* C15: notcontains(left, right) is true if left is empty and right is
\* not; for every other pair of operands it is the negation of
\* contains(left, right).
C15_NotContainsAsStated ==
  (EvaluatedBinary({"notcontains"}) /\ ~ctorArgs.isArithmeticOp)
    => evalResult.value = Bool(NotContainsContract(LeftValue, RightValue))

\* notcontains("abc", null) was evaluated and gave false, as contains does.
C15_SameAsContains ==
  /\ EvaluatedBinary({"notcontains"}) /\ ~ctorArgs.isArithmeticOp
  /\ ctorArgs.left = Const(TextAbc) /\ ctorArgs.right = Const(Null)
  /\ evalResult.value = Bool(FALSE)
  /\ ~Contains(LeftValue, RightValue)

\* A unary operand with one of the given operators was evaluated.
EvaluatedUnary(names) ==
  /\ evalResult.done
  /\ ctorArgs.class = "UnaryOperand"
  /\ ctorArgs.operatorName \in names

\* The value the child of the evaluated unary operand gave.
ExpressionValue == Evaluate(ctorArgs.expression, evalResult.values)

\* The values the contract of empty names.
EmptyContract(v) == v \in {Num(0), EmptyStr, Null, Undefined, Arr(<<>>)}

\* C16: empty is true for each of 0, "", null, undefined and the empty
\* sequence and false for every other value; notempty is its negation for
\* every value; negate is logical NOT.
C16_UnaryAsStated ==
  /\ EvaluatedUnary({"empty"})
       => evalResult.value = Bool(EmptyContract(ExpressionValue))
  /\ EvaluatedUnary({"notempty"})
       => evalResult.value = Bool(~EmptyContract(ExpressionValue))
  /\ EvaluatedUnary({"negate"})
       => evalResult.value = Bool(~Truthy(ExpressionValue))

\* empty of the empty sequence was evaluated and gave false.
C16_EmptySequenceIsNotEmpty ==
  /\ EvaluatedUnary({"empty"})
  /\ ctorArgs.expression = ArrayEmpty
  /\ evalResult.value = Bool(FALSE)

\* A Const was evaluated.
EvaluatedConst == evalResult.done /\ ctorArgs.class = "Const"

\* The arithmetic glyphs of the coercion rule.
Glyphs == {"-", "+", "*", "^", "/", "%"}

\* The rule of the contract for promoting a string to a number: no glyph
\* after the first character, and Number(value) is finite.
NumericContract(s) ==
  /\ \A i \in 2..Len(s) : s[i] \notin Glyphs
  /\ IsFinite(StrToNumber(s))

\* What the contract of the coercion makes of a value: a boolean, a
\* number, or the value unchanged.
CoercedContract(value, result) ==
  IF value.t # "string" THEN result = value
  ELSE IF ToLowerCase(value.s) \in {<<"t","r","u","e">>, <<"f","a","l","s","e">>}
  THEN result = Bool(ToLowerCase(value.s) = <<"t","r","u","e">>)
  ELSE IF NumericContract(value.s) THEN result.t = "number"
  ELSE result = value

\* C17: getCorrectValue makes a boolean of a string iff it is "true" or
\* "false" ignoring case; otherwise a number iff no glyph - + * ^ / %
\* stands after position 0 and Number(value) is finite ("-5" becomes -5);
\* every other value is returned unchanged; isNumericValue and isNumeric
\* agree with that rule on every string.
C17_CoercionAsStated ==
  EvaluatedConst
    => /\ CoercedContract(ctorArgs.value, evalResult.value)
       /\ ctorArgs.value = Str(<<"-","5">>) => evalResult.value = Num(-5)
       /\ ctorArgs.value.t = "string"
            => /\ IsNumericValue(ctorArgs.value.s)
                    = NumericContract(ctorArgs.value.s)
               /\ IsNumeric(ctorArgs.value.s)
                    = NumericContract(ctorArgs.value.s)

\* Const("-5") was evaluated and gave the string "-5".
C17_SignedStaysString ==
  /\ EvaluatedConst
  /\ ctorArgs.value = Str(<<"-","5">>)
  /\ evalResult.value = Str(<<"-","5">>)
  /\ ~IsNumeric(<<"-","5">>)

\* C18: Const(v).evaluate() is getCorrectValue(v) for every literal v, and
\* getCorrectValue applied to its own result returns that result.
C18_CoerceIdempotent ==
  EvaluatedConst
    => /\ evalResult.value = GetCorrectValue(ctorArgs.value)
       /\ GetCorrectValue(evalResult.value) = evalResult.value

\* Const("TRUE") was evaluated and gave the boolean true, which coercion
\* leaves as it is.
C18_Witness ==
  /\ EvaluatedConst
  /\ ctorArgs.value = Str(<<"T","R","U","E">>)
  /\ evalResult.value = Bool(TRUE)
  /\ GetCorrectValue(Bool(TRUE)) = Bool(TRUE)

\* A Variable was evaluated.
EvaluatedVariable == evalResult.done /\ ctorArgs.class = "Variable"

\* The keys of a snapshot that are the name up to letter case.
KeysIgnoringCase(values, name) ==
  {k \in DOMAIN values : ToLowerCase(k) = ToLowerCase(name)}

\* C19: Variable(name).evaluate(snapshot) looks the name up ignoring the
\* letter case of the name written in the expression, returns the coerced
\* stored value when the snapshot has it, and returns null when the
\* variable is absent from the snapshot.
C19_VariableLookup ==
  EvaluatedVariable
    => LET held == KeysIgnoringCase(evalResult.values, ctorArgs.variableName)
       IN IF held = {} THEN evalResult.value = Null
          ELSE \E k \in held :
                 evalResult.value = GetCorrectValue(evalResult.values[k])

\* Variable("Q1") was evaluated against a snapshot holding the string "5"
\* under q1 and gave the number 5.
C19_Witness ==
  /\ EvaluatedVariable
  /\ ctorArgs.variableName = <<"Q","1">>
  /\ evalResult.values = [k \in {q1} |-> Text5]
  /\ evalResult.value = Num(5)

\* Variable("q2") was evaluated against a snapshot that does not hold it
\* and gave null.
C19_AbsentWitness ==
  /\ EvaluatedVariable
  /\ ctorArgs.variableName = q2
  /\ evalResult.values = [k \in {q1} |-> Text5]
  /\ evalResult.value = Null

\* toString() of the operand last constructed returned.
PrintedOperand(classes) ==
  /\ printed.done /\ ~printed.threw
  /\ ctorArgs.class \in classes

\* The symbols the contract of toString gives to the binary operators that
\* have one, and "!" to negate.
ContractSymbols ==
  [equal |-> <<"=", "=">>, notequal |-> <<"!", "=">>, less |-> <<"<">>,
   lessorequal |-> <<"<", "=">>, greater |-> <<">">>,
   greaterorequal |-> <<">", "=">>, plus |-> <<"+">>, minus |-> <<"-">>,
   mul |-> <<"*">>, div |-> <<"/">>, power |-> <<"^">>, mod |-> <<"%">>,
   and |-> <<"&", "&">>, or |-> <<"|", "|">>, negate |-> <<"!">>]
ContractSymbol(operatorName) ==
  IF operatorName \in DOMAIN ContractSymbols THEN ContractSymbols[operatorName]
  ELSE NameChars[operatorName]

\* The text the contract of toString gives to a tree: every binary node in
\* parentheses with blanks around its symbol, a missing child as the empty
\* string, a unary operator before its operand, a variable in braces, a
\* sequence in brackets with ", " between its elements, a function call as
\* its name before its bracketed arguments in parentheses, a literal as
\* its value.
RECURSIVE ContractText(_)
RECURSIVE ContractElements(_)
ContractElements(ops) ==
  IF ops = <<>> THEN <<>>
  ELSE ContractText(ops[1])
         \o (IF Len(ops) = 1 THEN <<>>
             ELSE <<",", " ">> \o ContractElements(Tail(ops)))
ContractText(op) ==
  CASE op.k = "none" -> <<>>
    [] op.k = "const" -> JSToString(op.value)
    [] op.k = "variable" -> <<"{">> \o op.variableName \o <<"}">>
    [] op.k = "array" -> <<"[">> \o ContractElements(op.values) \o <<"]">>
    [] op.k = "unary" ->
         ContractSymbol(op.operatorName) \o ContractText(op.expression)
    [] op.k = "binary" ->
         <<"(">> \o ContractText(op.left) \o <<" ">>
           \o ContractSymbol(op.operatorName) \o <<" ">>
           \o ContractText(op.right) \o <<")">>
    [] op.k = "function" ->
         NameChars[op.origionalValue] \o <<"(">>
           \o ContractText(op.parameters) \o <<")">>

\* C20: toString of every BinaryOperand is "(" + left + " " + symbol + " "
\* + right + ")" at every nesting depth, with the symbols == != < <= > >=
\* + - * / ^ % && || and the operator name itself otherwise, a missing
\* child printing as the empty string; negate prints "!" before its
\* operand, a Variable prints "{name}", an ArrayOperand "[a, b]" and a
\* FunctionOperand name([args]).
C20_ToStringForm ==
  PrintedOperand({"BinaryOperand", "UnaryOperand", "Variable", "ArrayOperand",
                  "FunctionOperand"})
    => printed.text = ContractText(operand)

\* lessorequal over {q1} and the nested ({q1} + 1) was printed as
\* "({q1} <= ({q1} + 1))".
C20_Witness ==
  /\ PrintedOperand({"BinaryOperand"})
  /\ ctorArgs.operatorName = "lessorequal"
  /\ ctorArgs.left = Variable(q1) /\ ctorArgs.right = Q1Plus1
  /\ printed.text = <<"(", "{", "q", "1", "}", " ", "<", "=", " ", "(", "{",
                      "q", "1", "}", " ", "+", " ", "1", ")", ")">>

\* contains over a missing left child and {q1} was printed as
\* "( contains {q1})".
C20_MissingChildWitness ==
  /\ PrintedOperand({"BinaryOperand"})
  /\ ctorArgs.operatorName = "contains"
  /\ ctorArgs.left = NoOperand /\ ctorArgs.right = Variable(q1)
  /\ printed.text = <<"(", " ", "c", "o", "n", "t", "a", "i", "n", "s", " ",
                      "{", "q", "1", "}", ")">>

\* count over no parameters was printed as "count([])".
C20_FunctionWitness ==
  /\ PrintedOperand({"FunctionOperand"})
  /\ printed.text = <<"c", "o", "u", "n", "t", "(", "[", "]", ")">>

\* What the validators of an owner return, one by one, each called on its
\* own.
ResultOf(owner, i) ==
  IF IsValidateAllValues(owner.validators[i])
  THEN ExpressionValidateAllValues(owner.validators[i], owner.validatedValue,
                                   owner.values).result
  ELSE Validate(owner.validators[i], owner.validatedValue)
ResultsOf(owner) == [i \in 1..Len(owner.validators) |-> ResultOf(owner, i)]
HasAnError(result) == result # Null /\ result.error # Null
ErrorsOf(results) ==
  LET failed == SelectSeq(results, HasAnError)
  IN [j \in 1..Len(failed) |-> failed[j].error]

\* C21: ValidatorRunner.run calls every validator of the owner exactly
\* once, in registration order, does not stop at the first failure, and
\* returns all non-null errors in that order; a validator with
\* isValidateAllValues is called through validateAllValues with the owner's
\* filtered values, every other one through validate with the owner's
\* validated value.
C21_RunnerRunsAll ==
  runnerRun.done
    => /\ Len(runnerRun.calls) = Len(runnerRun.owner.validators)
       /\ \A i \in 1..Len(runnerRun.calls) :
            /\ runnerRun.calls[i].validator = i
            /\ runnerRun.calls[i].value = runnerRun.owner.validatedValue
            /\ IF IsValidateAllValues(runnerRun.owner.validators[i])
               THEN /\ runnerRun.calls[i].method = "validateAllValues"
                    /\ runnerRun.calls[i].values = runnerRun.owner.values
               ELSE runnerRun.calls[i].method = "validate"
       /\ runnerRun.res = ErrorsOf(ResultsOf(runnerRun.owner))

\* An owner with a numeric, a text and a regex validator was run on "abc":
\* the first and the third validator failed, and both errors were
\* returned.
C21_Witness ==
  /\ runnerRun.done
  /\ runnerRun.owner.validatedValue = TextAbc
  /\ Len(runnerRun.calls) = 3
  /\ runnerRun.res = <<RequreNumericError, CustomError>>

\* validate was called on a validator of the given type.
ValidatedBy(type) ==
  validated.done /\ validated.method = "validate" /\ validator.type = type
\* The error of a validation result, null when there is none.
ErrorOf(result) == IF result = Null THEN Null ELSE result.error

\* A value that is a finite number: a number, or a string that reads as
\* one.
IsFiniteNumber(value) ==
  value.t \in {"number", "string"} /\ IsFinite(ToNumber(value))
\* The error the contract of the numeric validator gives.
NumericContractError(minValue, maxValue, value) ==
  IF IsValueEmpty(value) THEN Null
  ELSE IF ~IsFiniteNumber(value) THEN RequreNumericError
  ELSE IF \/ minValue # Null /\ NumLess(ToNumber(value), minValue)
          \/ maxValue # Null /\ NumLess(maxValue, ToNumber(value))
  THEN CustomError
  ELSE Null

\* C22: NumericValidator.validate yields a requires-numeric error for every
\* non-empty value that is not a finite number; otherwise a range error iff
\* the value is below minValue or above maxValue, a value equal to a bound
\* being valid and a null bound disabling that side; otherwise no error.
C22_NumericAsStated ==
  ValidatedBy("numericvalidator")
    => ErrorOf(validated.result)
         = NumericContractError(validator.minValue, validator.maxValue,
                                validated.value)

\* The validator with the bounds 1 and 30 was given "0x1A", which reads as
\* 26, and returned a range error.
C22_HexOutOfRange ==
  /\ ValidatedBy("numericvalidator")
  /\ validator = NumericValidator(Num(1), Num(30))
  /\ validated.value = Str(<<"0", "x", "1", "A">>)
  /\ ToNumber(validated.value) = Num(26)
  /\ ErrorOf(validated.result) = CustomError

\* The characters of [A-Za-z\s] among those of the model.
LettersAndBlank ==
  {Lower[j] : j \in 1..Len(Lower)} \cup {Upper[j] : j \in 1..Len(Upper)}
    \cup {" "}
\* The text fails the contract of the text validator.
TextContractFails(minLength, maxLength, allowDigits, text) ==
  \/ ~allowDigits /\ \E i \in 1..Len(text) : text[i] \notin LettersAndBlank
  \/ minLength > 0 /\ Len(text) < minLength
  \/ maxLength > 0 /\ Len(text) > maxLength

\* C23: TextValidator.validate fails if allowDigits is false and the value
\* has a character outside [A-Za-z\s]; otherwise it fails iff minLength > 0
\* and the length is below minLength, or maxLength > 0 and the length is
\* above maxLength; otherwise it returns null.
C23_TextLength ==
  ValidatedBy("textvalidator")
    => IF validated.value.t = "string"
          /\ TextContractFails(validator.minLength, validator.maxLength,
                               validator.allowDigits, validated.value.s)
       THEN ErrorOf(validated.result) = CustomError
       ELSE validated.result = Null

\* With minLength 3, maxLength 5 and no digits allowed, "a1c" was given
\* and an error returned.
C23_Witness ==
  /\ ValidatedBy("textvalidator")
  /\ validator = TextValidator(3, 5, FALSE)
  /\ validated.value = Str(<<"a", "1", "c">>)
  /\ ErrorOf(validated.result) = CustomError

\* With the same validator "ab" was given and an error returned.
C23_TooShortWitness ==
  /\ ValidatedBy("textvalidator")
  /\ validator = TextValidator(3, 5, FALSE)
  /\ validated.value = Str(<<"a", "b">>)
  /\ ErrorOf(validated.result) = CustomError

\* With the same validator "abcd" was given and null returned.
C23_ValidWitness ==
  /\ ValidatedBy("textvalidator")
  /\ validator = TextValidator(3, 5, FALSE)
  /\ validated.value = Str(<<"a", "b", "c", "d">>)
  /\ validated.result = Null

\* What the contract of the regex validator returns for a pattern and a
\* non-empty value: for a sequence the first element that does not match,
\* for a scalar the value if it does not match.
RegexContractResult(regex, value) ==
  IF value.t = "array"
  THEN (IF FailingElements(regex, value) = {} THEN Null
        ELSE ValidatorResult(value.a[Min(FailingElements(regex, value))],
                             CustomError))
  ELSE (IF RegExpTest(regex, value) THEN Null
        ELSE ValidatorResult(value, CustomError))

\* C24: for a sequence RegexValidator.validate tests each element: an
\* error iff at least one element does not match, reporting the first
\* failing element, null when every element matches; for a scalar an error
\* iff the value does not match; an empty value or an empty regex is valid.
C24_RegexAsStated ==
  ValidatedBy("regexvalidator")
    => validated.result
         = IF ~Truthy(validator.regex) \/ IsValueEmpty(validated.value)
           THEN Null
           ELSE RegexContractResult(validator.regex, validated.value)

\* The pattern ^[a-z]+$ was tested on ["ab", "cd"], whose elements both
\* match, and an error reporting the whole sequence was returned.
C24_AllMatchStillFails ==
  /\ ValidatedBy("regexvalidator")
  /\ validator.regex = LowerPattern
  /\ validated.value = Arr(<<TextAb, TextCd>>)
  /\ FailingElements(LowerPattern, validated.value) = {}
  /\ validated.result = ValidatorResult(validated.value, CustomError)

\* validateAllValues was called on the expression validator.
ValidatedAllValues ==
  validated.done /\ validated.method = "validateAllValues"
\* The datasets of the example: a is 2 and b is 3, and b has become 4.
TwoAndThree == (va :> Num(2)) @@ (vb :> Num(3))
TwoAndFour == (va :> Num(2)) @@ (vb :> Num(4))

\* C25: ExpressionValidator.validateAllValues returns an error iff its
\* current expression evaluates to false against the whole dataset passed
\* in; the condition runner is created once and reused, and after the
\* expression text has changed the next call evaluates the new text; an
\* empty expression is always valid.
C25_ExpressionValidator ==
  ValidatedAllValues
    => /\ validated.result
            = IF ~Truthy(validated.before.expression) THEN Null
              ELSE IF Truthy(Evaluate(Compile(validated.before.expression),
                                      validated.values))
              THEN Null
              ELSE ValidatorResult(validated.value, CustomError)
       /\ validator.runners <= 1
       /\ validated.before.conditionRunner # Null
            => validator.runners = validated.before.runners

\* "{a} + {b} == 5" was valid over {a: 2, b: 3}, and the next call, over
\* {a: 2, b: 4}, returned an error.
C25_Witness ==
  /\ ValidatedAllValues
  /\ validated.previous.done
  /\ validated.previous.expression = SumIsFiveText
  /\ validated.previous.values = TwoAndThree
  /\ validated.previous.result = Null
  /\ validated.before.expression = SumIsFiveText
  /\ validated.values = TwoAndFour
  /\ ErrorOf(validated.result) = CustomError

\* After a call with "{a} + {b} == 5" the text became "{a} + {b} == 6":
\* the next call, over {a: 2, b: 4}, used the runner made for the first
\* text and returned null.
C25_ChangedTextWitness ==
  /\ ValidatedAllValues
  /\ validated.previous.done
  /\ validated.previous.expression = SumIsFiveText
  /\ validated.before.conditionRunner = ConditionRunner(SumIsFiveText)
  /\ validated.before.expression = SumIsSixText
  /\ validated.values = TwoAndFour
  /\ validated.result = Null
  /\ validator.runners = 1

\* ---------------------------------------------------------------------------
\* Paging and completion
\* ---------------------------------------------------------------------------
\* The step is a public call of the method `name`.
Called(name) ==
  opCount' = opCount + 1 /\ trace' # <<>> /\ trace'[1].name = name
\* Before the call the current page is the last visible page; it holds a
\* visible required question without a value.
AtLastPage == IsLastPage(Self)
CurrentPageHasErrors == RequiredAndEmpty(Self, CurrentPage(Self)) # {}
\* The call checked the onNextPage triggers.
OnNextPageTriggersRan ==
  \A i \in 1..Len(triggers) :
    triggers[i].isOnNextPage =>
      \E j \in 1..Len(trace') :
        trace'[j].e = "checkExpression" /\ trace'[j].trigger = i
\* The call returned false and left the current page as it was; it made
\* the page after the current one the current page and returned true.
RefusedToAdvance ==
  returned' = Bool(FALSE) /\ currentPageValue' = currentPageValue
Advanced ==
  returned' = Bool(TRUE) /\ currentPageValue' = CurrentPage(Self) + 1

\* C26: nextPage returns false and leaves the current page unchanged when
\* the current page is the last visible page, and when in edit mode the
\* current page has errors; when neither holds and no server validation
\* handler is registered, it runs the onNextPage triggers, makes the next
\* visible page the current page and returns true.
C26_NextPageAsStated ==
  [][Called("nextPage") =>
       /\ (AtLastPage \/ (IsEditMode /\ CurrentPageHasErrors))
            => RefusedToAdvance
       /\ (~AtLastPage /\ ~CurrentPageHasErrors /\ ~hasServerValidation)
            => OnNextPageTriggersRan /\ Advanced]_vars

\* A trigger completes the survey during the call: the call returns true
\* and the current page stays.
C26_CompletedInsteadOfAdvancing ==
  /\ LastCall("nextPage")
  /\ returned = Bool(TRUE)
  /\ currentPageValue = 1
  /\ isCompleted
  /\ \E j \in Events("action") : triggers[trace[j].trigger].kind = "complete"
\* The call handed the survey to doComplete.
CalledDoComplete == \E j \in 1..Len(trace') : trace'[j].e = "onCompleting"
\* C26 (amended): nextPage returns false and leaves the current page
\* unchanged when the current page is the last visible page, and when in
\* edit mode the current page has errors; when neither holds and no server
\* validation handler is registered it returns true, having run the
\* onNextPage triggers unless the survey was completed already; the next
\* visible page becomes the current page if the survey is not completed
\* after the triggers, otherwise the page stays and doComplete is called.
C26_NextPage ==
  [][Called("nextPage") =>
       /\ (AtLastPage \/ (IsEditMode /\ CurrentPageHasErrors))
            => RefusedToAdvance
       /\ (~AtLastPage /\ ~CurrentPageHasErrors /\ ~hasServerValidation)
            => /\ returned' = Bool(TRUE)
               /\ ~isCompleted => OnNextPageTriggersRan
               /\ IF isCompleted'
                  THEN CalledDoComplete /\ currentPageValue' = currentPageValue
                  ELSE currentPageValue' = CurrentPage(Self) + 1]_vars
\* nextPage ran the onNextPage triggers and moved to the second page.
C26_Witness ==
  /\ LastCall("nextPage")
  /\ ~hasServerValidation
  /\ returned = Bool(TRUE)
  /\ currentPageValue = 2
  /\ ~isCompleted
  /\ \E j \in Events("checkExpression") :
       triggers[trace[j].trigger].isOnNextPage
\* nextPage refused on a page with errors, and on the last page.
C26_ErrorsWitness ==
  /\ LastCall("nextPage")
  /\ returned = Bool(FALSE)
  /\ currentPageValue = 2
  /\ questionErrors[q2] > 0
C26_LastPageWitness ==
  /\ LastCall("nextPage")
  /\ returned = Bool(FALSE)
  /\ currentPageValue = 3


\* C27: completeLastPage completes the survey if the current page is the
\* last one: it returns false and leaves the survey not completed when in
\* edit mode the current page has errors; when there are no errors and no
\* server validation handler is registered it calls doComplete and returns
\* true.
C27_CompleteLastPage ==
  [][Called("completeLastPage") =>
       /\ (IsEditMode /\ CurrentPageHasErrors)
            => /\ returned' = Bool(FALSE)
               /\ isCompleted' = isCompleted
               /\ onCompleteCount' = onCompleteCount
               /\ ~CalledDoComplete
       /\ (~CurrentPageHasErrors /\ ~hasServerValidation)
            => /\ returned' = Bool(TRUE)
               /\ CalledDoComplete
               /\ allowComplete =>
                    /\ isCompleted'
                    /\ onCompleteCount' = onCompleteCount + 1
                    /\ trace'[Len(trace')].e = "onComplete"]_vars
\* completeLastPage completed the survey from its last page.
C27_Witness ==
  /\ LastCall("completeLastPage")
  /\ ~hasServerValidation
  /\ currentPageValue = 3
  /\ returned = Bool(TRUE)
  /\ isCompleted
  /\ onCompleteCount = 1
\* completeLastPage refused on a page with errors.
C27_ErrorsWitness ==
  /\ LastCall("completeLastPage")
  /\ returned = Bool(FALSE)
  /\ ~isCompleted
  /\ questionErrors[q2] > 0
  /\ Events("onCompleting") = {}


\* The events of the step's call with the given tag, as positions in the
\* trace the call leaves.
EventsOfCall(tag) == {j \in 1..Len(trace') : trace'[j].e = tag}
\* doComplete was vetoed: the completed flag, the data, the cookie and the
\* timer are as before and onComplete has not fired.
NothingCompleted ==
  /\ isCompleted' = isCompleted
  /\ currentPageValue' = currentPageValue
  /\ valuesHash' = valuesHash
  /\ documentCookie' = documentCookie
  /\ isTimerStarted' = isTimerStarted
  /\ onCompleteCount' = onCompleteCount
  /\ EventsOfCall("onComplete") = {}
\* onCompleting fired before anything else the call did.
OnCompletingFiredFirst ==
  /\ Len(trace') >= 2
  /\ trace'[2].e = "onCompleting"
  /\ trace'[2].vals = valuesHash
  /\ trace'[2].completed = isCompleted
\* onComplete fired once, on a completed survey whose data passes `Cleared`.
OnCompleteFiredAfter(Cleared(_)) ==
  /\ isCompleted'
  /\ \E j \in EventsOfCall("onComplete") :
       /\ EventsOfCall("onComplete") = {j}
       /\ trace'[j].completed
       /\ Cleared(trace'[j].vals)
       /\ trace'[j].vals = valuesHash'
\* The data holds no value of an invisible question.
NoInvisibleValues(data) == DOMAIN data \cap InvisibleNames = {}
\* The same, for a survey that clears them.
NoInvisibleValuesUnlessKept(data) ==
  clearInvisibleValues # "none" => NoInvisibleValues(data)

\* C28: doComplete fires onCompleting first; if a handler sets
\* options.allowComplete to false the survey does not complete: state, data,
\* cookie and timer are unchanged and onComplete is not fired.  Otherwise the
\* survey is in the 'completed' state, and unused/invisible values are
\* cleared, before onComplete fires.
C28_DoCompleteAsStated ==
  [][Called("doComplete") =>
       /\ OnCompletingFiredFirst
       /\ ~allowComplete => NothingCompleted
       /\ allowComplete => OnCompleteFiredAfter(NoInvisibleValues)]_vars
\* doComplete on a survey that keeps the values of invisible questions:
\* onComplete fired with the value of the invisible question in the data.
C28_InvisibleValueKept ==
  /\ LastCall("doComplete")
  /\ clearInvisibleValues = "none"
  /\ isCompleted
  /\ \E j \in Events("onComplete") : qh \in DOMAIN trace[j].vals

\* C28 (amended): doComplete fires onCompleting first; if a handler sets
\* options.allowComplete to false the survey does not complete: state, data,
\* cookie and timer are unchanged and onComplete is not fired.  Otherwise the
\* survey is in the 'completed' state and, unless clearInvisibleValues is
\* 'none', the values of invisible questions are cleared, before onComplete
\* fires.
C28_DoComplete ==
  [][Called("doComplete") =>
       /\ OnCompletingFiredFirst
       /\ ~allowComplete => NothingCompleted
       /\ allowComplete => OnCompleteFiredAfter(NoInvisibleValuesUnlessKept)]_vars
\* doComplete cleared the value of the invisible question, stopped the
\* timer and set the cookie before onComplete fired.
C28_Witness ==
  /\ LastCall("doComplete")
  /\ allowComplete
  /\ clearInvisibleValues = "onComplete"
  /\ cookieName # ""
  /\ documentCookie
  /\ ~isTimerStarted
  /\ isCompleted
  /\ qh \in DOMAIN trace[2].vals
  /\ \E j \in Events("onComplete") :
       trace[j].completed /\ qh \notin DOMAIN trace[j].vals
\* doComplete was vetoed with the timer running and an invisible value set.
C28_VetoWitness ==
  /\ LastCall("doComplete")
  /\ ~allowComplete
  /\ cookieName # ""
  /\ isTimerStarted
  /\ ~documentCookie
  /\ ~isCompleted
  /\ qh \in DOMAIN valuesHash
  /\ Events("onComplete") = {}
  /\ Events("onCompleting") = {2}


\* ---------------------------------------------------------------------------
\* The survey's state
\* ---------------------------------------------------------------------------
StateNames ==
  {"loading", "completed", "completedbefore", "starting", "running", "empty"}
\* What each state asks of the survey, one line per state in the order of
\* the sentence; a state is ruled out by every line before it.
IsStarting ==
  /\ mode = "edit"
  /\ ~isDesignMode
  /\ isStartedState
  /\ firstPageIsStarted /\ pages # <<>>
HasCurrentPage == CurrentPage(Self) # 0
StateConditions ==
  << <<"loading", isLoading>>,
     <<"completed", isCompleted>>,
     <<"completedbefore", isCompletedBefore>>,
     <<"starting", IsStarting>>,
     <<"running", HasCurrentPage>>,
     <<"empty", TRUE>> >>
\* The state named by the first line whose condition holds.
StateContract ==
  StateConditions[CHOOSE i \in 1..Len(StateConditions) :
                    /\ StateConditions[i][2]
                    /\ \A j \in 1..(i - 1) : ~StateConditions[j][2]][1]

\* C29: in every reachable state, state is 'loading' if isLoading, else
\* 'completed' if isCompleted, else 'completedbefore' if isCompletedBefore,
\* else 'starting' if the survey is in edit mode, not in design mode, in
\* started state and has a started page, else 'running' if there is a
\* current page, else 'empty'; exactly one of these values is returned.
C29_StateValue ==
  /\ State(Self) \in StateNames
  /\ State(Self) = StateContract
\* One reachable survey for each of the states that need an operation.
C29_Witness ==
  /\ State(Self) = "completedbefore"
  /\ LastCall("getSurveyJsonAndIsCompleted.callback")
C29_LoadingWitness == State(Self) = "loading" /\ isCompleted
C29_StartingWitness == State(Self) = "starting" /\ LastCall("clear")
C29_RunningWitness ==
  State(Self) = "running" /\ LastCall("start") /\ firstPageIsStarted
C29_EmptyWitness == State(Self) = "empty" /\ LastCall("clear")
C29_CompletedWitness ==
  State(Self) = "completed" /\ isCompletedBefore /\ isStartedState


\* ---------------------------------------------------------------------------
\* clear
\* ---------------------------------------------------------------------------
\* The arguments of the step's clear call.
ClearData == trace'[1].args[1]
GotoFirstPage == trace'[1].args[2]
\* clear is called on a completed survey with a visible page.
ClearedWhenCompleted ==
  Called("clear") /\ State(Self) = "completed" /\ Len(VisiblePages) > 0
\* The state, the data, the variables and the current page the call leaves.
StateAfter ==
  State([Self EXCEPT !.loading = isLoading', !.completed = isCompleted',
                     !.completedBefore = isCompletedBefore',
                     !.startedState = isStartedState',
                     !.page = currentPageValue'])
DataAsAsked ==
  IF ClearData
  THEN valuesHash' = EmptyHash /\ variablesHash' = EmptyHash
  ELSE valuesHash' = valuesHash
PageAsAsked == GotoFirstPage => currentPageValue' = VisiblePages[1]

C30_StartingAfterClear ==
  /\ LastCall("clear")
  /\ firstPageIsStarted
  /\ State(Self) = "starting"
  /\ \E j \in Events("clearing") : trace[j].was = "completed"

C30_KeptWitness ==
  /\ LastCall("clear")
  /\ Len(VisiblePages) > 0
  /\ trace[1].args = <<FALSE, FALSE>>
  /\ \E j \in Events("clearing") : trace[j].was = "completed"
  /\ State(Self) = "running"
  /\ valuesHash # EmptyHash
  /\ currentPageValue # VisiblePages[1]


\* ---------------------------------------------------------------------------
\* setValue: the order of its steps
\* ---------------------------------------------------------------------------
\* The step is a setValue call that got past the test for an equal value:
\* the write is the first thing it did.
SetValueChanged ==
  /\ Called("setValue")
  /\ Len(trace') >= 2
  /\ trace'[2].e = "store"
\* The arguments of that call.
SetName == trace'[1].args[1]
SetTo == trace'[1].args[2]
LocNotification == trace'[1].args[3]
\* The store right after the write holds the value under the name, or not
\* the name when the value is empty.
StoreUpdatedFirst ==
  /\ trace'[2].name = SetName
  /\ trace'[2].depth = 0
  /\ IF SetTo.t \in {"undefined", "null"} \/ SetTo = EmptyStr
          \/ SetTo = Arr(<<>>)
     THEN SetName \notin DOMAIN trace'[2].vals
     ELSE SetName \in DOMAIN trace'[2].vals
            /\ trace'[2].vals[SetName] = SetTo
  /\ \A k \in DOMAIN trace'[2].vals \ DOMAIN valuesHash : k = SetName
\* The positions in the call's trace of the checks of the survey's
\* onValueChange triggers made by the call itself, of the condition runs and
\* of the onValueChanged notifications for the name.
OwnTriggerChecks(i) ==
  {j \in EventsOfCall("checkExpression") :
     trace'[j].trigger = i /\ trace'[j].level = 1}
ConditionRuns == EventsOfCall("runConditions")
Notifications ==
  {j \in EventsOfCall("onValueChanged") :
     trace'[j].name = SetName /\ trace'[j].value = SetTo}
\* Every onValueChange trigger was checked, after the write; then the
\* conditions ran; then onValueChanged fired for the name, as the last step.
TriggersThenConditionsThenNotification ==
  /\ \A i \in 1..Len(triggers) :
       ~triggers[i].isOnNextPage => OwnTriggerChecks(i) # {}
  /\ Len(trace') \in Notifications
  /\ (Len(trace') - 1) \in ConditionRuns
  /\ \A i \in 1..Len(triggers) :
       \A j \in OwnTriggerChecks(i) : 2 < j /\ j < Len(trace') - 1
\* Nothing but the write happened.
OnlyStored == Len(trace') = 2

\* C31: a setValue(name, v) that changes the stored value first updates the
\* store (the key is removed when v is empty, so data never holds an empty
\* value written by setValue), then runs all onValueChange triggers, then
\* runs all visibility conditions, then fires onValueChanged for name, in
\* that order; with locNotification = true only the store and the question
\* values are updated and no trigger, condition or onValueChanged runs.
C31_SetValueOrderAsStated ==
  [][SetValueChanged =>
       /\ StoreUpdatedFirst
       /\ IF LocNotification THEN OnlyStored
          ELSE TriggersThenConditionsThenNotification]_vars

\* ---------------------------------------------------------------------------
\* Question lookup by name and by value name
\* ---------------------------------------------------------------------------
\* The name a lookup method compares: the name, or the value name.
LookedUpName(method, question) ==
  IF method = "getQuestionByName" THEN question.name
  ELSE GetValueName(question)
\* The questions of the survey the lookup is to consider, in the order they
\* were added: equal to the argument exactly, or ignoring letter case.
Matching(method, name, caseInsensitive) ==
  SelectSeq(questions,
            LAMBDA q : IF caseInsensitive
                       THEN ToLowerCase(LookedUpName(method, q))
                              = ToLowerCase(name)
                       ELSE LookedUpName(method, q) = name)
FirstMatching(method, name, caseInsensitive) ==
  IF Matching(method, name, caseInsensitive) = <<>> THEN NoQuestion
  ELSE Matching(method, name, caseInsensitive)[1]
\* C32: a lookup returns the first added question whose name (value name)
\* equals the argument, ignoring letter case when caseInsensitive is true and
\* exactly when it is false, and null when there is no such question.
C32_LookupAsStated ==
  found.done =>
    found.question
      = FirstMatching(found.method, found.name, found.caseInsensitive)

\* ---------------------------------------------------------------------------
\* Variables
\* ---------------------------------------------------------------------------
\* The survey a step leaves, as far as getVariable and data read it.
SurveyAfter == [Self EXCEPT !.vals = valuesHash', !.vars = variablesHash']
\* The names a caller may ask a variable under.
VariableNames == {v1, <<"V","1">>, <<"v","2">>}
\* The call evaluated no trigger.
NoTriggerEvaluated ==
  /\ EventsOfCall("checkTriggers") = {}
  /\ EventsOfCall("checkExpression") = {}
\* After the call and the write of the variable, the call ran the conditions
\* (once, unless the survey is completed) and nothing else.
OnlyConditionsRan ==
  /\ Cardinality(EventsOfCall("runConditions")) <= 1
  /\ trace'[1].args[1] # <<>> /\ ~isCompleted
       => Cardinality(EventsOfCall("runConditions")) = 1
  /\ \A j \in 2..Len(trace') :
       trace'[j].e \in {"setVariable", "snapshot", "runConditions"}
\* C33: a setVariable call leaves the data property as it was, so the
\* variable is no key of it unless a value of that name was there before;
\* it evaluates no trigger and runs only the conditions; and getVariable
\* returns the value set, under every letter case of the name.
C33_Variables ==
  [][Called("setVariable") =>
       /\ Data(SurveyAfter) = Data(Self)
       /\ valuesHash' = valuesHash
       /\ NoTriggerEvaluated
       /\ OnlyConditionsRan
       /\ trace'[1].args[1] # <<>> =>
            \A n \in VariableNames :
              ToLowerCase(n) = ToLowerCase(trace'[1].args[1])
                => GetVariable(SurveyAfter, n) = trace'[1].args[2]]_vars
\* setVariable("V1", 2) was called on a survey with triggers whose store
\* holds a value: getVariable("v1") returns 2 and v1 is no key of the data.
C33_Witness ==
  /\ LastCall("setVariable")
  /\ trace[1].args = << <<"V","1">>, Num(2) >>
  /\ triggers # <<>>
  /\ valuesHash # EmptyHash
  /\ GetVariable(Self, v1) = Num(2)
  /\ v1 \notin DOMAIN Data(Self)

\* ---------------------------------------------------------------------------
\* hasFunction
\* ---------------------------------------------------------------------------
\* A FunctionOperand is reachable from the root of the tree, through the
\* children of binary, unary and array nodes.
RECURSIVE ContainsFunction(_)
ContainsFunction(op) ==
  CASE op.k = "function" -> TRUE
    [] op.k = "binary" -> ContainsFunction(op.left) \/ ContainsFunction(op.right)
    [] op.k = "unary" -> ContainsFunction(op.expression)
    [] op.k = "array" ->
         \E i \in 1..Len(op.values) : ContainsFunction(op.values[i])
    [] OTHER -> FALSE
\* C35: hasFunction() returns true exactly when a FunctionOperand is
\* reachable from the root through binary, unary and array nodes.
C35_HasFunctionAsStated ==
  hasFunctionResult.done
    => hasFunctionResult.value = ContainsFunction(operand)

\* ---------------------------------------------------------------------------
\* nextPage and completeLastPage returning false
\* ---------------------------------------------------------------------------
\* nextPage or completeLastPage was called and returned false.
PagingReturnedFalse ==
  /\ Called("nextPage") \/ Called("completeLastPage")
  /\ returned' = Bool(FALSE)
\* The current page and the completed state are as before the call.
PageAndCompletedKept ==
  /\ CurrentPage([Self EXCEPT !.page = currentPageValue']) = CurrentPage(Self)
  /\ isCompleted' = isCompleted
\* C36: a nextPage or completeLastPage call that returns false has changed
\* neither the current page nor the completed state, with or without a
\* server validation handler, whether or not the handler calls
\* options.complete() before it returns.
C36_FalseChangesNothingAsStated ==
  [][PagingReturnedFalse => PageAndCompletedKept]_vars

\* ---------------------------------------------------------------------------
\* The timer
\* ---------------------------------------------------------------------------
\* A tick of the timer, and the page that was current when it began.
Tick == trace' # <<>> /\ trace'[1].name = "doTimer"
TickPage == trace'[2].page
\* The calls the tick made, as positions in its trace.
TickCalls(method, limit) ==
  {j \in EventsOfCall(method) : trace'[j].limit = limit}
\* The tick made the survey's timeSpent equal to maxTimeToFinish.
SurveyLimitReached == maxTimeToFinish > 0 /\ timeSpent + 1 = maxTimeToFinish
\* The tick made the page's timeSpent equal to the page's limit.
PageLimitReached ==
  /\ TickPage # 0
  /\ GetPageMaxTimeToFinish(TickPage) > 0
  /\ pageTimeSpent[TickPage] + 1 = GetPageMaxTimeToFinish(TickPage)
\* The page of the tick is the last visible page after the survey limit was
\* dealt with.
TickOnLastPage == VisibleIndexOf(TickPage) = Len(VisiblePages)
\* What a tick calls.
TickContract ==
  /\ SurveyLimitReached
       => Cardinality(TickCalls("completeLastPage", "survey")) = 1
  /\ PageLimitReached /\ TickOnLastPage
       => Cardinality(TickCalls("completeLastPage", "page")) = 1
  /\ PageLimitReached /\ ~TickOnLastPage
       => Cardinality(TickCalls("nextPage", "page")) = 1
\* A running survey has not spent more than the time it is given.
WithinTimeLimit ==
  maxTimeToFinish > 0 /\ State(Self) = "running"
    => timeSpent <= maxTimeToFinish
\* C34: the tick that reaches the survey's time limit calls completeLastPage,
\* the tick that reaches the current page's limit calls nextPage, or
\* completeLastPage on the last page; and a survey that is running has never
\* spent more than maxTimeToFinish.
C34_TimeLimitsAsStated ==
  [][Tick => TickContract]_vars /\ []WithinTimeLimit

\* ---------------------------------------------------------------------------
\* onComplete between two calls of clear()
\* ---------------------------------------------------------------------------
\* C37: since the last call of clear() (since the survey was created, before
\* the first one) onComplete has fired at most once, whatever nextPage,
\* completeLastPage, doComplete calls and timer ticks were made.
C37_OnCompleteOnceAsStated == onCompleteSinceClear <= 1

====
